---------------------------- MODULE Spec2Model ----------------------------
(***************************************************************************)
(* A model of the Creator Coach retrieval pipeline:                        *)
(*   knowledge_base/rag_system.py  RAGKnowledgeBase (chunking, embedding,  *)
(*                                 index build, save/load, search)         *)
(*   coaches/ai_coach.py           CoachManager / AICoach                  *)
(*   web_ui/app.py                 the request handlers that drive them    *)
(*                                                                         *)
(* One process owns ONE RAGKnowledgeBase and ONE CoachManager (app.py      *)
(* 25-27); the development server serves every request on its own thread,  *)
(* so handlers interleave at each access to the shared attributes.         *)
(*                                                                         *)
(* Numbers: similarity and quality scores are integers in thousandths      *)
(* (1.0 is 1000); a text is the sequence of its tokens.                    *)
(***************************************************************************)
EXTENDS Integers, Sequences, FiniteSets, TLC

(***************************************************************************)
(* Bounds of the model                                                     *)
(***************************************************************************)
\* requests (builds, questions, post edits) started in one behaviour: when
\* requests overlap (Spec), and when they run one at a time (SeqSpec, CrashSpec)
MaxOps == 3
MaxSeqOps == 4
\* chunks handed to one call of _generate_embeddings in EmbedSpec
MaxTexts == 201
\* process restarts in one behaviour of CrashSpec
MaxCrashes == 1
\* chunks in the list, and neighbours asked of the index, in RankSpec
MaxRankChunks == 3
MaxRankHits == 3
\* pieces of the text, and max_tokens, of one call of _chunk_by_tokens in TokenSpec
MaxTextLen == 4
MaxWindow == 3
\* posts handed to one call of _chunk_content_strategically in ChunkSpec
MaxChunkPosts == 2
\* calls of get_available_coaches, steps of the clock and profiles saved in
\* one behaviour of CacheSpec and CacheSeqSpec
MaxCacheOps == 5

(***************************************************************************)
(* Program constants                                                       *)
(***************************************************************************)
CaptionChunkSize == 100
TranscriptChunkSize == 200
MinChunkChars == 20
HighLikes == 1000
MediumLikes == 500
HighEngagementRate == 500
MinWords == 15
MaxWords == 150
BatchSize == 100
RemoteDim == 1536
LocalDim == 384
InitEmbeddingDimension == 1536
DefaultContextChunks == 5
DefaultQuality == 500
CacheTtl == 300

Min(a, b) == IF a <= b THEN a ELSE b

(***************************************************************************)
(* Texts.  A text is a sequence of pieces, told apart by what the code     *)
(* looks at: whitespace ("sp", one character), a plain word ("wd", six     *)
(* characters), a question mark ("qm"), a word holding one of the markers  *)
(* 'how to', 'tip', 'strategy', 'step' ("tip"), a character whose UTF-8    *)
(* bytes the encoding spreads over two tokens ("emoji"), and the           *)
(* replacement character U+FFFD ("bad").                                   *)
(* The empty sequence stands for both None and '' (both are falsy).        *)
(***************************************************************************)
Chars == {"sp", "wd", "qm", "tip", "emoji", "bad"}

\* the tokens of self.encoding: "e1" and "e2" hold the first and the last
\* bytes of the character "emoji", every other piece is one token
Tokens == {"sp", "wd", "qm", "tip", "e1", "e2", "bad"}

TokChars(t) == CASE t = "sp" -> 1
                 [] t = "wd" -> 6
                 [] t = "qm" -> 1
                 [] t = "tip" -> 3
                 [] t = "emoji" -> 1
                 [] t = "bad" -> 1

\* self.encoding.encode(text): piece by piece
RECURSIVE EncodeFrom(_)
EncodeFrom(text) ==
    IF text = <<>> THEN <<>>
    ELSE (IF Head(text) = "emoji" THEN <<"e1", "e2">> ELSE <<Head(text)>>)
         \o EncodeFrom(Tail(text))

\* a text without such a character has one token for each piece
Encode(text) ==
    IF \A i \in 1..Len(text) : text[i] /= "emoji" THEN text ELSE EncodeFrom(text)

\* self.encoding.decode(tokens): the bytes of the tokens are joined and
\* decoded as UTF-8 with errors='replace', so the bytes of a character cut
\* off from the rest of it come out as U+FFFD
RECURSIVE DecodeFrom(_)
DecodeFrom(tokens) ==
    IF tokens = <<>> THEN <<>>
    ELSE IF Head(tokens) = "e1" /\ Len(tokens) >= 2 /\ tokens[2] = "e2"
         THEN <<"emoji">> \o DecodeFrom(Tail(Tail(tokens)))
    ELSE IF Head(tokens) \in {"e1", "e2"}
         THEN <<"bad">> \o DecodeFrom(Tail(tokens))
    ELSE <<Head(tokens)>> \o DecodeFrom(Tail(tokens))

\* tokens that are whole characters decode to themselves
Decode(tokens) ==
    IF \A i \in 1..Len(tokens) : tokens[i] \notin {"e1", "e2"} THEN tokens
    ELSE DecodeFrom(tokens)

\* len(text): the characters of its pieces, kind by kind
CharLen(text) ==
    LET Count(kind) == Cardinality({i \in 1..Len(text) : text[i] = kind})
    IN Count("sp") * TokChars("sp") + Count("wd") * TokChars("wd")
       + Count("qm") * TokChars("qm") + Count("tip") * TokChars("tip")
       + Count("emoji") * TokChars("emoji") + Count("bad") * TokChars("bad")

RECURSIVE LStrip(_)
LStrip(text) == IF text /= <<>> /\ Head(text) = "sp" THEN LStrip(Tail(text)) ELSE text

RECURSIVE RStrip(_)
RStrip(text) == IF text /= <<>> /\ text[Len(text)] = "sp"
                THEN RStrip(SubSeq(text, 1, Len(text) - 1)) ELSE text

\* str.strip()
Strip(text) == RStrip(LStrip(text))

\* len(text.split()): the maximal runs of non-whitespace tokens
WordCount(text) ==
    Cardinality({i \in 1..Len(text) :
                    text[i] /= "sp" /\ (i = 1 \/ text[i - 1] = "sp")})

HasQuestion(text) == \E i \in 1..Len(text) : text[i] = "qm"
HasMarker(text) == \E i \in 1..Len(text) : text[i] = "tip"

\* n words separated by single whitespace tokens
Words(n) ==
    [i \in 1..(IF n <= 1 THEN 1 ELSE 2 * n - 1) |-> IF i % 2 = 1 THEN "wd" ELSE "sp"]

(***************************************************************************)
(* The posts table.  Every post the scraper can deliver, by post_id; the   *)
(* database holds a subset of them (dbPosts).                              *)
(***************************************************************************)
Creators == {1, 2}
PostIds == {"A1", "A2", "B1", "B2"}

PostRow(pid) ==
    CASE pid = "A1" ->
           [post_id |-> "A1", creator_id |-> 1, post_type |-> "image",
            caption_text |-> Words(4), transcript |-> <<>>,
            post_date |-> 4, likes |-> 1500, comments |-> 20,
            engagement_rate |-> 0, hashtags |-> <<"growth">>, media_url |-> "u1"]
      [] pid = "A2" ->
           [post_id |-> "A2", creator_id |-> 1, post_type |-> "video",
            caption_text |-> <<"wd">>,
            transcript |-> Words(3) \o <<"sp", "tip", "qm">>,
            post_date |-> 3, likes |-> 100, comments |-> 1,
            engagement_rate |-> 0, hashtags |-> <<>>, media_url |-> "u2"]
      [] pid = "B1" ->
           [post_id |-> "B1", creator_id |-> 2, post_type |-> "image",
            caption_text |-> <<"tip", "sp">> \o Words(3),
            transcript |-> <<>>,
            post_date |-> 2, likes |-> 600, comments |-> 3,
            engagement_rate |-> 0, hashtags |-> <<>>, media_url |-> "u3"]
      [] pid = "B2" ->
           [post_id |-> "B2", creator_id |-> 2, post_type |-> "image",
            caption_text |-> <<>>, transcript |-> <<>>,
            post_date |-> 1, likes |-> 2000, comments |-> 9,
            engagement_rate |-> 0, hashtags |-> <<>>, media_url |-> "u4"]

CreatorOfPost(pid) == PostRow(pid).creator_id

\* SELECT * FROM posts WHERE creator_id = ? ORDER BY post_date DESC
RECURSIVE SortByDateDesc(_)
SortByDateDesc(S) ==
    IF S = {} THEN <<>>
    ELSE LET p == CHOOSE x \in S : \A y \in S : PostRow(y).post_date <= PostRow(x).post_date
         IN <<PostRow(p)>> \o SortByDateDesc(S \ {p})

GetCreatorPosts(db, c) == SortByDateDesc({p \in db : CreatorOfPost(p) = c})

(***************************************************************************)
(* Chunk Builder                                                           *)
(***************************************************************************)
\* _chunk_by_tokens: the text is encoded, the tokens are cut into windows of
\* max_tokens tokens (the last may be shorter), each window is decoded
ChunkByTokens(text, max_tokens) ==
    LET tokens == Encode(text)
    IN [i \in 1..((Len(tokens) + max_tokens - 1) \div max_tokens) |->
          Decode(SubSeq(tokens, (i - 1) * max_tokens + 1,
                        Min(i * max_tokens, Len(tokens))))]

ExtractPostMetadata(post) ==
    [post_id |-> post.post_id, post_type |-> post.post_type,
     post_date |-> post.post_date, likes |-> post.likes,
     comments |-> post.comments, hashtags |-> post.hashtags,
     media_url |-> post.media_url]

\* a score that takes 1000 and 500 likes for the bands above them and
\* counts 15 and 150 words as outside the range
AssessContentQualityOffByOne(text, post) ==
    Min(1000,
        (IF MinWords < WordCount(text) /\ WordCount(text) < MaxWords THEN 300 ELSE 0)
      + (IF post.likes >= HighLikes THEN 400
         ELSE IF post.likes >= MediumLikes THEN 200 ELSE 0)
      + (IF HasQuestion(text) THEN 100 ELSE 0)
      + (IF HasMarker(text) THEN 200 ELSE 0))

\* a score that adds 0.5 for more than 1000 likes and is not capped
AssessContentQualityUncapped(text, post) ==
      (IF MinWords <= WordCount(text) /\ WordCount(text) <= MaxWords THEN 300 ELSE 0)
    + (IF post.likes > HighLikes THEN 500
       ELSE IF post.likes > MediumLikes THEN 200 ELSE 0)
    + (IF HasQuestion(text) THEN 100 ELSE 0)
    + (IF HasMarker(text) THEN 200 ELSE 0)

\* _assess_content_quality, in thousandths
AssessContentQuality(text, post) ==
    Min(1000,
        (IF MinWords <= WordCount(text) /\ WordCount(text) <= MaxWords THEN 300 ELSE 0)
      + (IF post.likes > HighLikes THEN 400
         ELSE IF post.likes > MediumLikes THEN 200 ELSE 0)
      + (IF HasQuestion(text) THEN 100 ELSE 0)
      + (IF HasMarker(text) THEN 200 ELSE 0))

RECURSIVE SemanticChunksFrom(_, _, _, _)
SemanticChunksFrom(windows, i, post, content_type) ==
    IF i > Len(windows) THEN <<>>
    ELSE (IF CharLen(Strip(windows[i])) < MinChunkChars THEN <<>>
          ELSE << [chunk_text |-> Strip(windows[i]),
                   chunk_type |-> IF content_type = "transcript"
                                  THEN "semantic_transcript" ELSE "semantic_caption",
                   topic_tags |-> <<content_type>>,
                   post_metadata |-> ExtractPostMetadata(post),
                   chunk_index |-> i - 1,
                   content_quality |-> AssessContentQuality(windows[i], post)] >>)
         \o SemanticChunksFrom(windows, i + 1, post, content_type)

\* _chunk_semantically
ChunkSemantically(content, post, content_type) ==
    SemanticChunksFrom(
        ChunkByTokens(content,
                      IF content_type = "transcript" THEN TranscriptChunkSize
                      ELSE CaptionChunkSize),
        1, post, content_type)

\* _create_high_value_chunk without the test of lines 162-163
CreateHighValueChunkOfAnyPost(post) ==
    << [chunk_text |-> IF post.transcript /= <<>> THEN post.transcript
                       ELSE post.caption_text,
        chunk_type |-> "high_value",
        topic_tags |-> <<"viral", "high_engagement">>,
        post_metadata |-> ExtractPostMetadata(post),
        engagement_metrics |-> [likes |-> post.likes, comments |-> post.comments,
                                engagement_rate |-> post.engagement_rate],
        content_quality |-> 1000] >>

\* _create_high_value_chunk: <<>> for None, else the one chunk
CreateHighValueChunk(post) ==
    IF post.caption_text = <<>> /\ post.transcript = <<>> THEN <<>>
    ELSE << [chunk_text |-> IF post.transcript /= <<>> THEN post.transcript
                            ELSE post.caption_text,
             chunk_type |-> "high_value",
             topic_tags |-> <<"viral", "high_engagement">>,
             post_metadata |-> ExtractPostMetadata(post),
             engagement_metrics |-> [likes |-> post.likes, comments |-> post.comments,
                                     engagement_rate |-> post.engagement_rate],
             content_quality |-> 1000] >>

\* a loop body that takes likes of 1000 and an engagement rate of 500 for high
PostChunksFromThreshold(post) ==
    (IF post.caption_text /= <<>>
     THEN ChunkSemantically(post.caption_text, post, "caption") ELSE <<>>)
 \o (IF post.transcript /= <<>>
     THEN ChunkSemantically(post.transcript, post, "transcript") ELSE <<>>)
 \o (IF post.likes >= HighLikes \/ post.engagement_rate >= HighEngagementRate
     THEN CreateHighValueChunk(post) ELSE <<>>)

\* the body of the loop over posts in _chunk_content_strategically
PostChunks(post) ==
    (IF post.caption_text /= <<>>
     THEN ChunkSemantically(post.caption_text, post, "caption") ELSE <<>>)
 \o (IF post.transcript /= <<>>
     THEN ChunkSemantically(post.transcript, post, "transcript") ELSE <<>>)
 \o (IF post.likes > HighLikes \/ post.engagement_rate > HighEngagementRate
     THEN CreateHighValueChunk(post) ELSE <<>>)

\* a loop that puts the chunks of each post before those gathered so far
RECURSIVE ChunkContentNewestFirst(_)
ChunkContentNewestFirst(posts) ==
    IF posts = <<>> THEN <<>>
    ELSE ChunkContentNewestFirst(Tail(posts)) \o PostChunks(Head(posts))

\* lines 66-97: chunks.extend(post_chunks), post after post
RECURSIVE ChunkContentStrategically(_)
ChunkContentStrategically(posts) ==
    IF posts = <<>> THEN <<>>
    ELSE PostChunks(Head(posts)) \o ChunkContentStrategically(Tail(posts))

(***************************************************************************)
(* Embedder.  A vector is named by the text it embeds and the model that   *)
(* embedded it ("remote": the OpenAI service, 1536 numbers; "local": the   *)
(* sentence transformer, 384 numbers), and by whether it has been          *)
(* L2-normalised.  Each batch of a build ends one of three ways: the       *)
(* remote call answers ("remote"), it raises and the local model answers   *)
(* ("local"), or both raise ("fail").                                      *)
(***************************************************************************)
Outcomes == {"remote", "local", "fail"}

Embed(text, model) == [text |-> text, model |-> model, unit |-> FALSE]

Dim(v) == IF v.model = "remote" THEN RemoteDim ELSE LocalDim

\* the number of turns of `for i in range(0, len(texts), batch_size)`
NumBatches(n) == (n + BatchSize - 1) \div BatchSize

BatchOf(i) == ((i - 1) \div BatchSize) + 1

ChunkTexts(chunks) == [i \in 1..Len(chunks) |-> chunks[i].chunk_text]

\* _generate_embeddings on the texts, batch b ending as outcomes[b].
\* raised: "" when it returns, else the exception that leaves it.
\* ndim: the rank of the returned array (np.array([]) has rank 1).
GenerateEmbeddings(texts, outcomes) ==
    IF \E b \in 1..NumBatches(Len(texts)) : outcomes[b] = "fail"
    THEN [raised |-> "FallbackError", vecs |-> <<>>, ndim |-> 0]
    ELSE IF \E a, b \in 1..NumBatches(Len(texts)) : outcomes[a] /= outcomes[b]
    THEN \* np.array(ragged list, dtype='float32')
         [raised |-> "ValueError", vecs |-> <<>>, ndim |-> 0]
    ELSE [raised |-> "",
          vecs |-> [i \in 1..Len(texts) |-> Embed(texts[i], outcomes[BatchOf(i)])],
          ndim |-> IF Len(texts) = 0 THEN 1 ELSE 2]

(***************************************************************************)
(* Vector index (faiss.IndexFlatIP)                                        *)
(***************************************************************************)
\* self.index = None
NoIndex == [some |-> FALSE, d |-> 0, vecs |-> <<>>]

\* faiss.IndexFlatIP(d)
IndexFlatIP(d) == [some |-> TRUE, d |-> d, vecs |-> <<>>]

\* faiss.normalize_L2
NormalizeL2(vecs) == [i \in 1..Len(vecs) |-> [vecs[i] EXCEPT !.unit = TRUE]]

\* index.add(x) asserts x.shape[1] == index.d
CanAdd(ix, vecs) == ix.some /\ \A i \in 1..Len(vecs) : Dim(vecs[i]) = ix.d

IndexAdd(ix, vecs) == [ix EXCEPT !.vecs = @ \o vecs]

Queries == {"q1", "q2"}

\* The inner product of the unit vectors of a query and a text, in
\* thousandths: fixed by the embedding model, which is outside the program.
Similarity(q, model, text) ==
    LET base == IF q = "q1"
                THEN (IF HasMarker(text) THEN 900 ELSE 300 + 10 * WordCount(text))
                ELSE 200 + 100 * WordCount(text) - (IF HasQuestion(text) THEN 150 ELSE 0)
    IN IF model = "remote" THEN base ELSE (base \div 2) + 100

\* the score faiss reports for a missing neighbour (-FLT_MAX), label -1
PadScore == -1000000

Score(ix, q, model, i) == Similarity(q, model, ix.vecs[i].text)

\* the positions of S by descending score, the lower position first on a tie
RECURSIVE RankByScore(_, _, _, _)
RankByScore(ix, q, model, S) ==
    IF S = {} THEN <<>>
    ELSE LET best == CHOOSE i \in S : \A j \in S :
                        \/ Score(ix, q, model, i) > Score(ix, q, model, j)
                        \/ (Score(ix, q, model, i) = Score(ix, q, model, j) /\ i <= j)
         IN <<best>> \o RankByScore(ix, q, model, S \ {best})

\* index.search(query, k) asserts query.shape[1] == index.d
CanSearch(ix, model) == ix.some /\ Dim(Embed(<<>>, model)) = ix.d

\* index.search(query, k): k (label, score) pairs, labels counted from 0,
\* padded with (-1, -FLT_MAX) when the index holds fewer than k vectors
IndexSearch(ix, q, model, k) ==
    LET ranked == RankByScore(ix, q, model, 1..Len(ix.vecs))
    IN [n \in 1..k |->
          IF n <= Len(ranked)
          THEN [idx |-> ranked[n] - 1, score |-> Score(ix, q, model, ranked[n])]
          ELSE [idx |-> -1, score |-> PadScore]]

(***************************************************************************)
(* Retriever: lines 462-475 of search_knowledge                            *)
(***************************************************************************)
\* list[idx] for a Python list (negative idx counts from the end)
PyItem(list, idx) == IF idx >= 0 THEN list[idx + 1] ELSE list[Len(list) + idx + 1]

\* a result whose missing content_quality counts as 0
MakeResultZeroDefault(chunk, score) ==
    LET quality == IF "content_quality" \in DOMAIN chunk
                   THEN chunk.content_quality ELSE 0
    IN [f \in DOMAIN chunk \cup {"similarity_score", "final_score"} |->
          IF f = "similarity_score" THEN score
          ELSE IF f = "final_score" THEN score + (quality \div 10)
          ELSE chunk[f]]

\* result = chunk.copy(); result['similarity_score'] = ...; result['final_score'] = ...
MakeResult(chunk, score) ==
    LET quality == IF "content_quality" \in DOMAIN chunk
                   THEN chunk.content_quality ELSE DefaultQuality
    IN [f \in DOMAIN chunk \cup {"similarity_score", "final_score"} |->
          IF f = "similarity_score" THEN score
          ELSE IF f = "final_score" THEN score + (quality \div 10)
          ELSE chunk[f]]

\* `if idx < len(self.chunk_metadata)`
KeepsHit(meta, hit) == hit.idx < Len(meta)

RECURSIVE CollectResults(_, _, _)
CollectResults(meta, hits, n) ==
    IF n > Len(hits) THEN <<>>
    ELSE (IF KeepsHit(meta, hits[n])
          THEN <<MakeResult(PyItem(meta, hits[n].idx), hits[n].score)>>
          ELSE <<>>)
         \o CollectResults(meta, hits, n + 1)

\* an insertion that puts r before its equals: an unstable sort
RECURSIVE InsertDescBeforeEquals(_, _)
InsertDescBeforeEquals(s, r) ==
    IF s = <<>> THEN <<r>>
    ELSE IF r.final_score >= Head(s).final_score THEN <<r>> \o s
    ELSE <<Head(s)>> \o InsertDescBeforeEquals(Tail(s), r)

\* insert r into the descending, stably sorted list s, after its equals
RECURSIVE InsertDesc(_, _)
InsertDesc(s, r) ==
    IF s = <<>> THEN <<r>>
    ELSE IF r.final_score > Head(s).final_score THEN <<r>> \o s
    ELSE <<Head(s)>> \o InsertDesc(Tail(s), r)

\* results.sort(key=final_score, reverse=True): stable
RECURSIVE SortByFinalScore(_)
SortByFinalScore(rs) ==
    IF rs = <<>> THEN <<>>
    ELSE InsertDesc(SortByFinalScore(SubSeq(rs, 1, Len(rs) - 1)), rs[Len(rs)])

RankResults(meta, hits) == SortByFinalScore(CollectResults(meta, hits, 1))

(***************************************************************************)
(* Knowledge Base Store: what the two files hold.                          *)
(* faiss.write_index / read_index keep the dimension and the vectors;      *)
(* json.dump writes each chunk as an object: its (key, value) pairs in     *)
(* insertion order, a nested dict as an object again; json.load rebuilds   *)
(* a dict from the pairs.                                                  *)
(***************************************************************************)
NoFile == [kind |-> "absent"]
\* opened for writing, the content not (fully) written yet
PartialFile == [kind |-> "partial"]

WriteIndex(ix) == [kind |-> "faiss", d |-> ix.d, ntotal |-> Len(ix.vecs), vecs |-> ix.vecs]

\* faiss.read_index raises on a missing or truncated file
CanReadIndex(file) == file.kind = "faiss"

ReadIndex(file) == [some |-> TRUE, d |-> file.d, vecs |-> SubSeq(file.vecs, 1, file.ntotal)]

KeyOrder == <<"chunk_text", "chunk_type", "topic_tags", "post_metadata", "chunk_index",
              "engagement_metrics", "content_quality",
              "post_id", "post_type", "post_date", "likes", "comments", "hashtags",
              "media_url", "engagement_rate",
              "similarity_score", "final_score">>

NestedKeys == {"post_metadata", "engagement_metrics"}

\* a dump that knows the keys of a semantic chunk only
RECURSIVE PairsFromKnownKeys(_, _)
PairsFromKnownKeys(obj, n) ==
    IF n > Len(KeyOrder) THEN <<>>
    ELSE (IF KeyOrder[n] \in DOMAIN obj /\ KeyOrder[n] /= "engagement_metrics"
          THEN << <<KeyOrder[n], obj[KeyOrder[n]]>> >> ELSE <<>>)
         \o PairsFromKnownKeys(obj, n + 1)

RECURSIVE PairsFrom(_, _)
PairsFrom(obj, n) ==
    IF n > Len(KeyOrder) THEN <<>>
    ELSE (IF KeyOrder[n] \in DOMAIN obj
          THEN << <<KeyOrder[n], obj[KeyOrder[n]]>> >> ELSE <<>>)
         \o PairsFrom(obj, n + 1)

\* one JSON object from a flat dict
DumpObject(obj) == PairsFrom(obj, 1)

\* the dict of a JSON object
LoadObject(pairs) ==
    [key \in {pairs[i][1] : i \in 1..Len(pairs)} |->
        pairs[CHOOSE i \in 1..Len(pairs) :
                 pairs[i][1] = key /\ \A j \in 1..Len(pairs) : pairs[j][1] = key => j <= i][2]]

DumpChunk(chunk) ==
    DumpObject([key \in DOMAIN chunk |->
                   IF key \in NestedKeys THEN DumpObject(chunk[key]) ELSE chunk[key]])

LoadChunk(pairs) ==
    LET obj == LoadObject(pairs)
    IN [key \in DOMAIN obj |->
           IF key \in NestedKeys THEN LoadObject(obj[key]) ELSE obj[key]]

\* json.dump(self.chunk_metadata, f)
JsonDump(chunks) == [kind |-> "json", doc |-> [i \in 1..Len(chunks) |-> DumpChunk(chunks[i])]]

\* json.load raises on a missing, empty or truncated file
CanJsonLoad(file) == file.kind = "json"

JsonLoad(file) == [i \in 1..Len(file.doc) |-> LoadChunk(file.doc[i])]

(***************************************************************************)
(* State                                                                   *)
(***************************************************************************)
VARIABLES
    index,                \* RAGKnowledgeBase.index (shared by every coach)
    chunk_metadata,       \* RAGKnowledgeBase.chunk_metadata
    embedding_dimension,  \* RAGKnowledgeBase.embedding_dimension
    active_coaches,       \* CoachManager.active_coaches: the creators with a coach
    dbPosts,              \* table posts: the post ids it holds
    coach_profiles,       \* table coach_profiles: the creators with a profile
    knowledge_chunks,     \* table knowledge_chunks: the rows of each creator
    disk,                 \* knowledge_base/creator_<id>/: the two files
    threads,              \* the request each server thread is serving
    budget,               \* requests that may still be started
    crashes,              \* process restarts so far
    cache,                \* CoachManager._cache
    now                   \* time.time(), in seconds

vars == <<index, chunk_metadata, embedding_dimension, active_coaches, dbPosts,
          coach_profiles, knowledge_chunks, disk, threads, budget, crashes,
          cache, now>>

memory == <<index, chunk_metadata, embedding_dimension, active_coaches>>
database == <<dbPosts, coach_profiles, knowledge_chunks>>

Threads == {"t1", "t2"}

\* self._cache = {} (ai_coach.py 225)
EmptyCache == [key \in {} |-> [data |-> {}, timestamp |-> 0]]

NoReturn == [kind |-> "none", err |-> "", results |-> <<>>,
             total_chunks |-> 0, chunk_types |-> {}, embedding_dimension |-> 0]

Raised(err) == [NoReturn EXCEPT !.kind = "error", !.err = err]

Results(rs) == [NoReturn EXCEPT !.kind = "results", !.results = rs]

\* the dict create_knowledge_base returns (lines 55-60)
Summary(chunks, dimension) ==
    [NoReturn EXCEPT !.kind = "summary",
                     !.total_chunks = Len(chunks),
                     !.chunk_types = {chunks[i].chunk_type : i \in 1..Len(chunks)},
                     !.embedding_dimension = dimension]

\* no cache entry read
NoEntry == [data |-> {}, timestamp |-> 0]

\* what a call found when it was entered: the two attributes, and the rows
\* and the files of the creator it is for
NoSnapshot ==
    [index |-> NoIndex, chunk_metadata |-> <<>>, rows |-> <<>>,
     files |-> [index |-> NoFile, meta |-> NoFile]]

\* a thread serving no request
IdleThread ==
    [pc |-> "idle", op |-> "none", creator |-> 0, query |-> "", k |-> 0,
     outcomes |-> <<>>, model |-> "", chunks |-> <<>>, vecs |-> <<>>, ndim |-> 0,
     ix |-> NoIndex, hits |-> <<>>, ret |-> NoReturn,
     posts |-> <<>>, text |-> <<>>, max_tokens |-> 0, windows |-> <<>>,
     quality |-> 0, batch |-> 0, calls |-> <<>>,
     before |-> NoSnapshot,
     entry |-> NoEntry, data |-> {}, found |-> "", checked |-> 0]

\* the objects as constructed (rag_system.py 25-27, ai_coach.py 222)
MemoryInit ==
    /\ index = NoIndex
    /\ chunk_metadata = <<>>
    /\ embedding_dimension = InitEmbeddingDimension
    /\ active_coaches = {}

\* the database holds some posts; nothing has been built yet
StoreInit ==
    /\ dbPosts \in {{"A1", "B1"}, {"A2", "B2"}}
    /\ coach_profiles = {}
    /\ knowledge_chunks = [c \in Creators |-> <<>>]
    /\ disk = [c \in Creators |-> [index |-> NoFile, meta |-> NoFile]]

\* no post, no profile, no file: the store of the runs of one function
EmptyStore ==
    /\ dbPosts = {}
    /\ coach_profiles = {}
    /\ knowledge_chunks = [c \in Creators |-> <<>>]
    /\ disk = [c \in Creators |-> [index |-> NoFile, meta |-> NoFile]]

\* the process has just started and will take so many requests
InitWith(requests) ==
    /\ MemoryInit
    /\ StoreInit
    /\ threads = [t \in Threads |-> IdleThread]
    /\ budget = requests
    /\ crashes = 0
    /\ cache = EmptyCache
    /\ now = 0

Init == InitWith(MaxOps)

SeqInit == InitWith(MaxSeqOps)

Snapshot(c) ==
    [index |-> index, chunk_metadata |-> chunk_metadata,
     rows |-> knowledge_chunks[c], files |-> disk[c]]

\* a thread that can take a new request: it serves none, or has answered
Free(t) == threads[t].pc \in {"idle", "done"}

Goto(t, pc) == threads' = [threads EXCEPT ![t].pc = pc]

Finish(t, ret) == threads' = [threads EXCEPT ![t].pc = "done", ![t].ret = ret]

(***************************************************************************)
(* update_coach_knowledge(creator_id) -> create_knowledge_base             *)
(***************************************************************************)
\* the Python types sqlite3 binds to a `?`; any other raises
SqliteBinds(pytype) == pytype \in {"NoneType", "int", "float", "str", "bytes"}

\* models.py 256-277, add_knowledge_chunk: the row it inserts, none when
\* cursor.execute raises.  embedding_vector is embeddings[i].tolist()
\* (rag_system.py 392), a list.
AddKnowledgeChunk(c, chunk) ==
    IF SqliteBinds("int") /\ SqliteBinds("str") /\ SqliteBinds("list")
    THEN << [creator_id |-> c, post_id |-> chunk.post_metadata.post_id,
             chunk_text |-> chunk.chunk_text, chunk_type |-> chunk.chunk_type] >>
    ELSE <<>>

\* rag_system.py 370-400: one add_knowledge_chunk per chunk; the except
\* clause of the loop swallows what it raises
RECURSIVE SavedRows(_, _, _)
SavedRows(c, chunks, n) ==
    IF n > Len(chunks) THEN <<>>
    ELSE AddKnowledgeChunk(c, chunks[n]) \o SavedRows(c, chunks, n + 1)

\* _save_chunks_to_database: the creator's rows are deleted (line 366), then
\* the chunks are added
SaveChunksToDatabase(rows, c, chunks) == [rows EXCEPT ![c] = SavedRows(c, chunks, 1)]

\* app.py 343-372 and rag_system.py 39-46: read the posts, save the profile,
\* chunk, embed, store the chunks; everything up to the first write of
\* self.index.  (process_creator_content, app.py 110-188, reaches
\* create_knowledge_base the same way.)
UpdateCoachKnowledge(t, c, outcomes) ==
    /\ Free(t)
    /\ budget > 0
    /\ budget' = budget - 1
    /\ LET posts == GetCreatorPosts(dbPosts, c)
           chunks == ChunkContentStrategically(posts)
           emb == GenerateEmbeddings(ChunkTexts(chunks), outcomes)
           me == [IdleThread EXCEPT !.op = "build", !.creator = c,
                                    !.outcomes = outcomes,
                                    !.before = Snapshot(c)]
       IN /\ Len(outcomes) = NumBatches(Len(chunks))
          /\ IF posts = <<>>
             THEN /\ threads' = [threads EXCEPT ![t] =
                        [me EXCEPT !.pc = "done", !.ret = Raised("No real posts found")]]
                  /\ UNCHANGED <<coach_profiles, knowledge_chunks>>
             ELSE /\ coach_profiles' = coach_profiles \cup {c}
                  /\ IF emb.raised /= ""
                     THEN /\ threads' = [threads EXCEPT ![t] =
                                [me EXCEPT !.pc = "done", !.chunks = chunks,
                                           !.ret = Raised(emb.raised)]]
                          /\ UNCHANGED knowledge_chunks
                     ELSE /\ knowledge_chunks' =
                                SaveChunksToDatabase(knowledge_chunks, c, chunks)
                          /\ threads' = [threads EXCEPT ![t] =
                                [me EXCEPT !.pc = "build_index", !.chunks = chunks,
                                           !.vecs = emb.vecs, !.ndim = emb.ndim]]
    /\ UNCHANGED <<memory, dbPosts, disk, crashes, cache, now>>

\* line 345: self.index = faiss.IndexFlatIP(embeddings.shape[1])
\* (IndexError when the array has one axis: no chunk), then line 348
BuildIndexNew(t) ==
    /\ threads[t].pc = "build_index"
    /\ IF threads[t].ndim < 2
       THEN /\ Finish(t, Raised("IndexError"))
            /\ UNCHANGED index
       ELSE /\ index' = IndexFlatIP(Dim(threads[t].vecs[1]))
            /\ threads' = [threads EXCEPT ![t].pc = "index_add",
                                          ![t].vecs = NormalizeL2(@)]
    /\ UNCHANGED <<chunk_metadata, embedding_dimension, active_coaches,
                   database, disk, budget, crashes, cache, now>>

\* line 351: self.index.add(embeddings), on the index the attribute holds now
BuildIndexAdd(t) ==
    /\ threads[t].pc = "index_add"
    /\ IF CanAdd(index, threads[t].vecs)
       THEN /\ index' = IndexAdd(index, threads[t].vecs)
            /\ Goto(t, "set_metadata")
       ELSE /\ Finish(t, Raised("AssertionError"))
            /\ UNCHANGED index
    /\ UNCHANGED <<chunk_metadata, embedding_dimension, active_coaches,
                   database, disk, budget, crashes, cache, now>>

\* line 354: self.chunk_metadata = chunks
BuildSetMetadata(t) ==
    /\ threads[t].pc = "set_metadata"
    /\ chunk_metadata' = threads[t].chunks
    /\ Goto(t, "open_index_file")
    /\ UNCHANGED <<index, embedding_dimension, active_coaches,
                   database, disk, budget, crashes, cache, now>>

\* line 411, faiss.write_index: the file is opened for writing (truncated) ...
SaveOpenIndexFile(t) ==
    /\ threads[t].pc = "open_index_file"
    /\ disk' = [disk EXCEPT ![threads[t].creator].index = PartialFile]
    /\ Goto(t, "write_index_file")
    /\ UNCHANGED <<memory, database, budget, crashes, cache, now>>

\* ... and self.index is written to it
SaveWriteIndexFile(t) ==
    /\ threads[t].pc = "write_index_file"
    /\ disk' = [disk EXCEPT ![threads[t].creator].index = WriteIndex(index)]
    /\ Goto(t, "open_meta_file")
    /\ UNCHANGED <<memory, database, budget, crashes, cache, now>>

\* line 414: open(chunk_metadata.json, 'w') truncates the file ...
SaveOpenMetaFile(t) ==
    /\ threads[t].pc = "open_meta_file"
    /\ disk' = [disk EXCEPT ![threads[t].creator].meta = PartialFile]
    /\ Goto(t, "write_meta_file")
    /\ UNCHANGED <<memory, database, budget, crashes, cache, now>>

\* ... line 415 writes self.chunk_metadata, and lines 55-60 return the summary
SaveWriteMetaFile(t) ==
    /\ threads[t].pc = "write_meta_file"
    /\ disk' = [disk EXCEPT ![threads[t].creator].meta = JsonDump(chunk_metadata)]
    /\ threads' = [threads EXCEPT
            ![t].pc = "done",
            ![t].ret = Summary(threads[t].chunks, embedding_dimension),
            ![t].before = NoSnapshot]
    /\ UNCHANGED <<memory, database, budget, crashes, cache, now>>

(***************************************************************************)
(* ask_coach_by_id(creator_id, question) -> load_coach, AICoach.ask_coach  *)
(***************************************************************************)
\* the values of context_chunks a caller passes (5 unless told otherwise)
ContextChunks == {1, 2, DefaultContextChunks}

\* ai_coach.py 319, 230-237: the coach is cached, or has no profile, or its
\* knowledge base must be loaded
AskCoachById(t, c, q, k) ==
    /\ Free(t)
    /\ budget > 0
    /\ budget' = budget - 1
    /\ LET me == [IdleThread EXCEPT !.op = "ask", !.creator = c, !.query = q, !.k = k]
       IN threads' = [threads EXCEPT ![t] =
             IF c \in active_coaches THEN [me EXCEPT !.pc = "check_index"]
             ELSE IF c \notin coach_profiles
                  THEN [me EXCEPT !.pc = "done", !.ret = Raised("Coach not available")]
                  ELSE [me EXCEPT !.pc = "load_index"]]
    /\ UNCHANGED <<memory, database, disk, crashes, cache, now>>

\* rag_system.py 425: self.index = faiss.read_index(...); on an exception
\* load_knowledge_base returns False and load_coach returns None.
\* before keeps what the two attributes held when load_knowledge_base was
\* entered, until it returns True.
LoadIndex(t) ==
    /\ threads[t].pc = "load_index"
    /\ LET file == disk[threads[t].creator].index
           entered == Snapshot(threads[t].creator)
       IN IF CanReadIndex(file)
          THEN /\ index' = ReadIndex(file)
               /\ threads' = [threads EXCEPT ![t].pc = "load_meta",
                                             ![t].before = entered]
          ELSE /\ threads' = [threads EXCEPT ![t].pc = "done",
                                             ![t].ret = Raised("Coach not available"),
                                             ![t].before = entered]
               /\ UNCHANGED index
    /\ UNCHANGED <<chunk_metadata, embedding_dimension, active_coaches,
                   database, disk, budget, crashes, cache, now>>

\* rag_system.py 428-429: self.chunk_metadata = json.load(f), then
\* ai_coach.py 245-255: the coach is created and cached
LoadMetadata(t) ==
    /\ threads[t].pc = "load_meta"
    /\ LET file == disk[threads[t].creator].meta
       IN IF CanJsonLoad(file)
          THEN /\ chunk_metadata' = JsonLoad(file)
               /\ active_coaches' = active_coaches \cup {threads[t].creator}
               /\ threads' = [threads EXCEPT ![t].pc = "check_index",
                                             ![t].before = NoSnapshot]
          ELSE /\ Finish(t, Raised("Coach not available"))
               /\ UNCHANGED <<chunk_metadata, active_coaches>>
    /\ UNCHANGED <<index, embedding_dimension, database, disk, budget, crashes, cache, now>>

\* rag_system.py 440-453: `if not self.index: return []`, else the query is
\* embedded: by the remote service, by the local model when that raises, or
\* the local model raises too
SearchCheckIndex(t, model) ==
    /\ threads[t].pc = "check_index"
    /\ IF ~index.some
       THEN Finish(t, Results(<<>>))
       ELSE IF model = "fail"
            THEN Finish(t, Raised("FallbackError"))
            ELSE threads' = [threads EXCEPT ![t].pc = "search_index", ![t].model = model,
                                            ![t].ix = index]
    /\ UNCHANGED <<memory, database, disk, budget, crashes, cache, now>>

\* line 459: self.index.search(query_embedding, k)
SearchIndex(t) ==
    /\ threads[t].pc = "search_index"
    /\ IF CanSearch(index, threads[t].model)
       THEN threads' = [threads EXCEPT
                ![t].pc = "collect",
                ![t].ix = index,
                ![t].hits = IndexSearch(index, threads[t].query, threads[t].model,
                                        threads[t].k)]
       ELSE Finish(t, Raised("AssertionError"))
    /\ UNCHANGED <<memory, database, disk, budget, crashes, cache, now>>

\* a search that writes the scores into the chunks of self.chunk_metadata
\* (no .copy() on line 465)
SearchCollectInPlace(t) ==
    /\ threads[t].pc = "collect"
    /\ threads' = [threads EXCEPT
            ![t].pc = "done",
            ![t].chunks = chunk_metadata,
            ![t].ret = Results(RankResults(chunk_metadata, threads[t].hits))]
    /\ chunk_metadata' =
          [i \in 1..Len(chunk_metadata) |->
              IF \E n \in 1..Len(threads[t].hits) :
                    /\ KeepsHit(chunk_metadata, threads[t].hits[n])
                    /\ PyItem(chunk_metadata, threads[t].hits[n].idx) = chunk_metadata[i]
              THEN MakeResult(chunk_metadata[i], 0)
              ELSE chunk_metadata[i]]
    /\ UNCHANGED <<index, embedding_dimension, active_coaches,
                   database, disk, budget, crashes, cache, now>>

\* lines 462-477: the results are read out of self.chunk_metadata and sorted
SearchCollect(t) ==
    /\ threads[t].pc = "collect"
    /\ threads' = [threads EXCEPT
            ![t].pc = "done",
            ![t].chunks = chunk_metadata,
            ![t].ret = Results(RankResults(chunk_metadata, threads[t].hits))]
    /\ UNCHANGED <<memory, database, disk, budget, crashes, cache, now>>

(***************************************************************************)
(* The environment: posts come and go, the process is killed and restarted *)
(***************************************************************************)
\* app.py 88: db.add_post
AddPost(p) ==
    /\ p \notin dbPosts
    /\ budget > 0
    /\ budget' = budget - 1
    /\ dbPosts' = dbPosts \cup {p}
    /\ UNCHANGED <<memory, coach_profiles, knowledge_chunks, disk, threads, crashes, cache, now>>

\* app.py 388: db.delete_post (it also deletes the knowledge_chunks rows of
\* the post, of which there are none: see SaveChunksToDatabase)
DeletePost(p) ==
    /\ p \in dbPosts
    /\ budget > 0
    /\ budget' = budget - 1
    /\ dbPosts' = dbPosts \ {p}
    /\ UNCHANGED <<memory, coach_profiles, knowledge_chunks, disk, threads, crashes, cache, now>>

\* The process stops wherever it is (killed, power loss, the debug
\* reloader) and is started again: the objects are constructed anew
\* (rag_system.py 25-27, ai_coach.py 222), the database and the files stay.
Crash ==
    /\ crashes < MaxCrashes
    /\ crashes' = crashes + 1
    /\ index' = NoIndex
    /\ chunk_metadata' = <<>>
    /\ embedding_dimension' = InitEmbeddingDimension
    /\ active_coaches' = {}
    /\ threads' = [t \in Threads |-> IdleThread]
    /\ cache' = EmptyCache
    /\ UNCHANGED <<database, disk, budget, now>>

ThreadStep(t) ==
    \/ \E c \in Creators, o \in {<<>>} \cup {<<x>> : x \in Outcomes} :
          UpdateCoachKnowledge(t, c, o)
    \/ BuildIndexNew(t)
    \/ BuildIndexAdd(t)
    \/ BuildSetMetadata(t)
    \/ SaveOpenIndexFile(t)
    \/ SaveWriteIndexFile(t)
    \/ SaveOpenMetaFile(t)
    \/ SaveWriteMetaFile(t)
    \/ \E c \in Creators, q \in Queries, k \in ContextChunks : AskCoachById(t, c, q, k)
    \/ LoadIndex(t)
    \/ LoadMetadata(t)
    \/ \E m \in Outcomes : SearchCheckIndex(t, m)
    \/ SearchIndex(t)
    \/ SearchCollect(t)

PostStep == \E p \in PostIds : AddPost(p) \/ DeletePost(p)

\* Requests overlap: every thread steps at its own pace
Next == (\E t \in Threads : ThreadStep(t)) \/ PostStep

Spec == Init /\ [][Next]_vars

\* One request at a time and no crash: the handlers run to completion
SeqNext == ThreadStep("t1") \/ PostStep

SeqSpec == SeqInit /\ [][SeqNext]_vars

\* One request at a time; the process may be killed at any step
CrashNext == ThreadStep("t1") \/ PostStep \/ Crash

CrashSpec == SeqInit /\ [][CrashNext]_vars

\* rag_system.py 411, 414: the file cannot be opened for writing (the disk
\* is full, the directory is read-only): OSError leaves create_knowledge_base
SaveRaises(t) ==
    /\ threads[t].pc \in {"open_index_file", "open_meta_file"}
    /\ Finish(t, Raised("OSError"))
    /\ UNCHANGED <<memory, database, disk, budget, crashes, cache, now>>

\* One request at a time; a save may fail at either file
FaultNext == ThreadStep("t1") \/ PostStep \/ SaveRaises("t1")

FaultSpec == SeqInit /\ [][FaultNext]_vars

(***************************************************************************)
(* _generate_embeddings on its own: any number of chunks up to MaxTexts,   *)
(* every way its batches can end.                                          *)
(***************************************************************************)
\* n chunks, as far as _generate_embeddings reads them
TextChunks(n) == [i \in 1..n |-> [chunk_text |-> Words(1 + (i % 3))]]

Returned == [NoReturn EXCEPT !.kind = "returned"]

EmbedInit ==
    /\ MemoryInit
    /\ StoreInit
    /\ budget = 0
    /\ crashes = 0
    /\ cache = EmptyCache
    /\ now = 0
    /\ \E n \in 0..MaxTexts : \E o \in [1..NumBatches(n) -> Outcomes] :
          threads = [t \in Threads |->
                        IF t = "t1"
                        THEN [IdleThread EXCEPT !.op = "embed", !.pc = "embed",
                                                !.chunks = TextChunks(n),
                                                !.outcomes = o]
                        ELSE IdleThread]

\* rag_system.py 311-338
GenerateEmbeddingsCall(t) ==
    /\ threads[t].pc = "embed"
    /\ LET emb == GenerateEmbeddings(ChunkTexts(threads[t].chunks), threads[t].outcomes)
       IN threads' = [threads EXCEPT
             ![t].pc = "done",
             ![t].vecs = emb.vecs,
             ![t].ndim = emb.ndim,
             ![t].ret = IF emb.raised = "" THEN Returned ELSE Raised(emb.raised)]
    /\ UNCHANGED <<memory, database, disk, budget, crashes, cache, now>>

EmbedNext == GenerateEmbeddingsCall("t1")

EmbedSpec == EmbedInit /\ [][EmbedNext]_vars

(***************************************************************************)
(* _generate_embeddings call by call: the loop of lines 319-336 takes the  *)
(* batches in turn; for each it calls the remote service and, when that    *)
(* raises, the local model.  calls counts what was called for each batch.  *)
(***************************************************************************)
\* texts[i:i + batch_size] of turn b of the loop
Batch(texts, b) == SubSeq(texts, (b - 1) * BatchSize + 1, Min(b * BatchSize, Len(texts)))

EmbedBatch(batch, model) == [j \in 1..Len(batch) |-> Embed(batch[j], model)]

NoCalls == [remote |-> 0, local |-> 0]

EmbedLoopInit ==
    /\ MemoryInit
    /\ EmptyStore
    /\ budget = 0
    /\ crashes = 0
    /\ cache = EmptyCache
    /\ now = 0
    /\ \E n \in 0..MaxTexts : \E o \in [1..NumBatches(n) -> Outcomes] :
          threads = [t \in Threads |->
                        IF t = "t1"
                        THEN [IdleThread EXCEPT
                                 !.op = "embed_loop", !.pc = "embed_batch",
                                 !.chunks = TextChunks(n), !.outcomes = o,
                                 !.batch = 1,
                                 !.calls = [b \in 1..NumBatches(n) |-> NoCalls]]
                        ELSE IdleThread]

\* a remote call that is made again when it raises, before the fallback
EmbedBatchRemoteRetry(t) ==
    /\ threads[t].pc = "embed_batch"
    /\ threads[t].batch <= NumBatches(Len(threads[t].chunks))
    /\ LET b == threads[t].batch
           batch == Batch(ChunkTexts(threads[t].chunks), b)
       IN threads' = [threads EXCEPT
             ![t].calls[b].remote = @ + 1,
             ![t].vecs = IF threads[t].outcomes[b] = "remote"
                         THEN @ \o EmbedBatch(batch, "remote") ELSE @,
             ![t].batch = IF threads[t].outcomes[b] = "remote" THEN @ + 1 ELSE @,
             ![t].pc = IF threads[t].outcomes[b] = "remote"
                          \/ threads[t].calls[b].remote = 0
                       THEN "embed_batch" ELSE "embed_fallback"]
    /\ UNCHANGED <<memory, database, disk, budget, crashes, cache, now>>

\* lines 319-328: the next batch is sent to the remote service
EmbedBatchRemote(t) ==
    /\ threads[t].pc = "embed_batch"
    /\ threads[t].batch <= NumBatches(Len(threads[t].chunks))
    /\ LET b == threads[t].batch
           batch == Batch(ChunkTexts(threads[t].chunks), b)
       IN threads' = [threads EXCEPT
             ![t].calls[b].remote = @ + 1,
             ![t].vecs = IF threads[t].outcomes[b] = "remote"
                         THEN @ \o EmbedBatch(batch, "remote") ELSE @,
             ![t].batch = IF threads[t].outcomes[b] = "remote" THEN @ + 1 ELSE @,
             ![t].pc = IF threads[t].outcomes[b] = "remote"
                       THEN "embed_batch" ELSE "embed_fallback"]
    /\ UNCHANGED <<memory, database, disk, budget, crashes, cache, now>>

\* lines 330-334: the except clause encodes the batch with the local model;
\* what that raises leaves _generate_embeddings
EmbedBatchLocal(t) ==
    /\ threads[t].pc = "embed_fallback"
    /\ LET b == threads[t].batch
           batch == Batch(ChunkTexts(threads[t].chunks), b)
       IN IF threads[t].outcomes[b] = "local"
          THEN threads' = [threads EXCEPT
                  ![t].calls[b].local = @ + 1,
                  ![t].vecs = @ \o EmbedBatch(batch, "local"),
                  ![t].batch = @ + 1,
                  ![t].pc = "embed_batch"]
          ELSE threads' = [threads EXCEPT
                  ![t].calls[b].local = @ + 1,
                  ![t].pc = "done",
                  ![t].ret = Raised("FallbackError")]
    /\ UNCHANGED <<memory, database, disk, budget, crashes, cache, now>>

\* line 336: np.array(embeddings, dtype='float32') after the last batch;
\* rows of 1536 and of 384 numbers make no array
EmbedReturn(t) ==
    /\ threads[t].pc = "embed_batch"
    /\ threads[t].batch > NumBatches(Len(threads[t].chunks))
    /\ IF \E i, j \in 1..Len(threads[t].vecs) :
             Dim(threads[t].vecs[i]) /= Dim(threads[t].vecs[j])
       THEN Finish(t, Raised("ValueError"))
       ELSE threads' = [threads EXCEPT
               ![t].pc = "done",
               ![t].ndim = IF threads[t].vecs = <<>> THEN 1 ELSE 2,
               ![t].ret = Returned]
    /\ UNCHANGED <<memory, database, disk, budget, crashes, cache, now>>

EmbedLoopNext ==
    \/ EmbedBatchRemote("t1")
    \/ EmbedBatchLocal("t1")
    \/ EmbedReturn("t1")

EmbedLoopSpec == EmbedLoopInit /\ [][EmbedLoopNext]_vars

\* the interpreter runs the loop on: every call returns or raises (the
\* client has a request timeout), and the next statement is executed
EmbedLoopFairSpec == EmbedLoopSpec /\ WF_vars(EmbedLoopNext)

(***************************************************************************)
(* Lines 462-477 of search_knowledge on their own: every chunk list of up  *)
(* to MaxRankChunks chunks and every answer of index.search of up to       *)
(* MaxRankHits neighbours.  A chunk carries the content_quality of a       *)
(* semantic or high_value chunk, or none (the chunks of                    *)
(* _create_engagement_chunk and _chunk_by_strategy have none).             *)
(***************************************************************************)
RankQualities == {0, 1000}
RankScores == {400, 450, 500}

\* chunk i of a list, with content_quality q, or without one when q < 0
RankChunk(i, q) ==
    IF q < 0
    THEN [chunk_text |-> Words(i), chunk_type |-> "high_engagement"]
    ELSE [chunk_text |-> Words(i), chunk_type |-> "semantic_caption",
          content_quality |-> q]

\* the chunk lists of 1..max chunks
RankChunkLists(max) ==
    UNION {{[i \in 1..n |-> RankChunk(i, qs[i])] :
              qs \in [1..n -> RankQualities \cup {-1}]} : n \in 1..max}

\* what index.search can answer: the neighbours by descending score, each
\* label once, then the padding
IsSearchAnswer(hits) ==
    /\ \A n \in 1..Len(hits) : (hits[n].idx = -1) <=> (hits[n].score = PadScore)
    /\ \A n \in 1..(Len(hits) - 1) :
          /\ hits[n].score >= hits[n + 1].score
          /\ hits[n].idx = -1 => hits[n + 1].idx = -1
    /\ \A n, m \in 1..Len(hits) :
          (n /= m /\ hits[n].idx /= -1) => hits[n].idx /= hits[m].idx

\* the answers for k = 1..maxk of an index of up to max vectors
RankHitLists(max, maxk) ==
    UNION {{hits \in [1..k -> [idx : -1..(max - 1),
                               score : RankScores \cup {PadScore}]] :
              IsSearchAnswer(hits)} : k \in 1..maxk}

RankInit ==
    /\ index = NoIndex
    /\ embedding_dimension = InitEmbeddingDimension
    /\ active_coaches = {}
    /\ EmptyStore
    /\ budget = 0
    /\ crashes = 0
    /\ cache = EmptyCache
    /\ now = 0
    /\ chunk_metadata \in RankChunkLists(MaxRankChunks)
    /\ \E hits \in RankHitLists(MaxRankChunks, MaxRankHits) :
          threads = [t \in Threads |->
                        IF t = "t1"
                        THEN [IdleThread EXCEPT !.op = "ask", !.pc = "collect",
                                                !.k = Len(hits), !.hits = hits]
                        ELSE IdleThread]

RankNext == SearchCollect("t1")

RankSpec == RankInit /\ [][RankNext]_vars

(***************************************************************************)
(* _chunk_by_tokens on its own: every text of up to MaxTextLen pieces and  *)
(* every max_tokens up to MaxWindow.                                       *)
(***************************************************************************)
TextsUpTo(n) == UNION {[1..m -> Chars] : m \in 0..n}

TokenInit ==
    /\ MemoryInit
    /\ EmptyStore
    /\ budget = 0
    /\ crashes = 0
    /\ cache = EmptyCache
    /\ now = 0
    /\ \E text \in TextsUpTo(MaxTextLen), n \in 1..MaxWindow :
          threads = [t \in Threads |->
                        IF t = "t1"
                        THEN [IdleThread EXCEPT !.op = "tokens", !.pc = "chunk_by_tokens",
                                                !.text = text, !.max_tokens = n]
                        ELSE IdleThread]

\* rag_system.py 258-268
ChunkByTokensCall(t) ==
    /\ threads[t].pc = "chunk_by_tokens"
    /\ threads' = [threads EXCEPT
            ![t].pc = "done",
            ![t].windows = ChunkByTokens(threads[t].text, threads[t].max_tokens),
            ![t].ret = Returned]
    /\ UNCHANGED <<memory, database, disk, budget, crashes, cache, now>>

TokenNext == ChunkByTokensCall("t1")

TokenSpec == TokenInit /\ [][TokenNext]_vars

(***************************************************************************)
(* _chunk_content_strategically on its own: every list of up to            *)
(* MaxChunkPosts posts, each post one of the text shapes with one of the   *)
(* engagement shapes below.  likes and engagement_rate are nullable        *)
(* columns; the scraper stores what the platform reports.                  *)
(***************************************************************************)
\* None, for likes and engagement_rate
None == -1

\* caption_text, transcript and media_url: no text; no text and no media
\* URL; a caption under 20 characters; a caption of 27 characters; a caption
\* with whitespace around it; a caption of whitespace; both texts, the
\* transcript of 16 words with a marker and a question mark; a caption of
\* two windows, the second one kept; a transcript of two windows, the second
\* one too short to keep
TextShapes ==
    { [caption_text |-> <<>>, transcript |-> <<>>, media_url |-> "u"],
      [caption_text |-> <<>>, transcript |-> <<>>, media_url |-> ""],
      [caption_text |-> <<"wd">>, transcript |-> <<>>, media_url |-> "u"],
      [caption_text |-> Words(4), transcript |-> <<>>, media_url |-> "u"],
      [caption_text |-> <<"sp">> \o Words(4) \o <<"sp">>, transcript |-> <<>>,
       media_url |-> "u"],
      [caption_text |-> <<"sp">>, transcript |-> <<>>, media_url |-> "u"],
      [caption_text |-> Words(4),
       transcript |-> Words(15) \o <<"sp", "tip", "qm">>, media_url |-> "u"],
      [caption_text |-> Words(54), transcript |-> <<>>, media_url |-> "u"],
      [caption_text |-> <<>>, transcript |-> Words(101), media_url |-> "u"] }

EngagementShapes ==
    { [likes |-> 0, engagement_rate |-> 0],
      [likes |-> HighLikes, engagement_rate |-> HighEngagementRate],
      [likes |-> HighLikes + 1, engagement_rate |-> 0],
      [likes |-> 0, engagement_rate |-> HighEngagementRate + 1],
      [likes |-> None, engagement_rate |-> 0],
      [likes |-> 0, engagement_rate |-> None],
      [likes |-> HighLikes + 1, engagement_rate |-> None] }

PostNames == <<"P1", "P2", "P3">>

\* the i-th post of a list
ChunkPost(i, texts, engagement) ==
    [post_id |-> PostNames[i], creator_id |-> 1, post_type |-> "video",
     caption_text |-> texts.caption_text, transcript |-> texts.transcript,
     post_date |-> Len(PostNames) - i, likes |-> engagement.likes, comments |-> 0,
     engagement_rate |-> engagement.engagement_rate,
     hashtags |-> <<>>, media_url |-> texts.media_url]

\* the post list of the shapes f[1], ..., f[n]
ChunkPostList(f) == [i \in DOMAIN f |-> ChunkPost(i, f[i][1], f[i][2])]

\* the loop body raises TypeError for this post: None > 1000 (line 145 or
\* line 90), or None > 500 (line 90, reached when likes > 1000 is false)
PostRaises(post) ==
    \/ post.likes = None
    \/ (post.likes <= HighLikes /\ post.engagement_rate = None)

ChunkInit ==
    /\ MemoryInit
    /\ EmptyStore
    /\ budget = 0
    /\ crashes = 0
    /\ cache = EmptyCache
    /\ now = 0
    /\ \E n \in 0..MaxChunkPosts : \E f \in [1..n -> TextShapes \X EngagementShapes] :
          threads = [t \in Threads |->
                        IF t = "t1"
                        THEN [IdleThread EXCEPT !.op = "chunk", !.pc = "chunk_content",
                                                !.posts = ChunkPostList(f)]
                        ELSE IdleThread]

\* rag_system.py 62-97: no statement of the loop is inside a try
ChunkContentCall(t) ==
    /\ threads[t].pc = "chunk_content"
    /\ IF \E i \in 1..Len(threads[t].posts) : PostRaises(threads[t].posts[i])
       THEN Finish(t, Raised("TypeError"))
       ELSE threads' = [threads EXCEPT
               ![t].pc = "done",
               ![t].chunks = ChunkContentStrategically(threads[t].posts),
               ![t].ret = Returned]
    /\ UNCHANGED <<memory, database, disk, budget, crashes, cache, now>>

ChunkNext == ChunkContentCall("t1")

ChunkSpec == ChunkInit /\ [][ChunkNext]_vars

(***************************************************************************)
(* _assess_content_quality on its own: texts on both sides of the word     *)
(* counts 15 and 150, with and without a question mark and a marker, for   *)
(* posts on both sides of 500 and 1000 likes and a post with NULL likes.   *)
(***************************************************************************)
\* 0, 13, 14, 149 or 150 words ...
QualityBodies == {<<>>, Words(13), Words(14), Words(149), Words(150)}

\* ... followed by nothing, or by one more word: plain, or with a marker,
\* with or without a question mark after it
QualityTails ==
    {<<>>, <<"wd">>, <<"wd", "qm">>, <<"tip">>, <<"tip", "qm">>}

QualityText(body, tail) ==
    IF body = <<>> \/ tail = <<>> THEN body \o tail ELSE body \o <<"sp">> \o tail

QualityLikes == {0, MediumLikes, MediumLikes + 1, HighLikes, HighLikes + 1, None}

QualityInit ==
    /\ MemoryInit
    /\ EmptyStore
    /\ budget = 0
    /\ crashes = 0
    /\ cache = EmptyCache
    /\ now = 0
    /\ \E body \in QualityBodies, tail \in QualityTails, likes \in QualityLikes :
          threads = [t \in Threads |->
                        IF t = "t1"
                        THEN [IdleThread EXCEPT
                                 !.op = "quality", !.pc = "assess_quality",
                                 !.text = QualityText(body, tail),
                                 !.posts = <<[likes |-> likes]>>]
                        ELSE IdleThread]

\* rag_system.py 132-156; None > 1000 raises TypeError (line 145)
AssessContentQualityCall(t) ==
    /\ threads[t].pc = "assess_quality"
    /\ IF threads[t].posts[1].likes = None
       THEN Finish(t, Raised("TypeError"))
       ELSE threads' = [threads EXCEPT
               ![t].pc = "done",
               ![t].quality = AssessContentQuality(threads[t].text, threads[t].posts[1]),
               ![t].ret = Returned]
    /\ UNCHANGED <<memory, database, disk, budget, crashes, cache, now>>

QualityNext == AssessContentQualityCall("t1")

QualitySpec == QualityInit /\ [][QualityNext]_vars

(***************************************************************************)
(* CoachManager's cache (ai_coach.py 257-315).  get_available_coaches is   *)
(* served on the thread of its request; the threads share self._cache and  *)
(* step at each access to it.  The clock moves on between any two steps.   *)
(***************************************************************************)
\* _get_cache_key('available_coaches'), the one key in use
CacheKey == "coach_cache_available_coaches"

\* what the clock advances by in one step: a second, or one short of the TTL
ClockSteps == {1, CacheTtl - 1}

CacheInit ==
    /\ MemoryInit
    /\ EmptyStore
    /\ threads = [t \in Threads |-> IdleThread]
    /\ budget = MaxCacheOps
    /\ crashes = 0
    /\ cache = EmptyCache
    /\ now = 0

\* a request calls get_available_coaches (app.py 33, 194, 252)
GetAvailableCoaches(t) ==
    /\ Free(t)
    /\ budget > 0
    /\ budget' = budget - 1
    /\ threads' = [threads EXCEPT ![t] =
          [IdleThread EXCEPT !.op = "coaches", !.pc = "cache_check"]]
    /\ UNCHANGED <<memory, database, disk, crashes, cache, now>>

\* line 268: if cache_key in self._cache
CacheCheck(t) ==
    /\ threads[t].pc = "cache_check"
    /\ threads' = [threads EXCEPT
          ![t].pc = IF CacheKey \in DOMAIN cache THEN "cache_read" ELSE "read_db",
          ![t].found = IF CacheKey \in DOMAIN cache THEN "" ELSE "absent"]
    /\ UNCHANGED <<memory, database, disk, budget, crashes, cache, now>>

\* line 269: entry = self._cache[cache_key]
CacheRead(t) ==
    /\ threads[t].pc = "cache_read"
    /\ IF CacheKey \in DOMAIN cache
       THEN threads' = [threads EXCEPT ![t].pc = "cache_valid",
                                       ![t].entry = cache[CacheKey]]
       ELSE Finish(t, Raised("KeyError"))
    /\ UNCHANGED <<memory, database, disk, budget, crashes, cache, now>>

\* lines 270-271 and 263: time.time() - entry['timestamp'] < self._cache_ttl;
\* a valid entry's data is returned by _get_from_cache and by
\* get_available_coaches (lines 289-290)
CacheValid(t) ==
    /\ threads[t].pc = "cache_valid"
    /\ IF now - threads[t].entry.timestamp < CacheTtl
       THEN threads' = [threads EXCEPT ![t].pc = "done", ![t].found = "hit",
                                       ![t].checked = now,
                                       ![t].data = threads[t].entry.data,
                                       ![t].ret = Returned]
       ELSE threads' = [threads EXCEPT ![t].pc = "cache_delete",
                                       ![t].found = "expired",
                                       ![t].checked = now]
    /\ UNCHANGED <<memory, database, disk, budget, crashes, cache, now>>

\* line 274: del self._cache[cache_key]
CacheDelete(t) ==
    /\ threads[t].pc = "cache_delete"
    /\ IF CacheKey \in DOMAIN cache
       THEN /\ cache' = [key \in DOMAIN cache \ {CacheKey} |-> cache[key]]
            /\ Goto(t, "read_db")
       ELSE /\ Finish(t, Raised("KeyError"))
            /\ UNCHANGED cache
    /\ UNCHANGED <<memory, database, disk, budget, crashes, now>>

\* lines 292-311: the creators that have a coach profile are read
ReadCoaches(t) ==
    /\ threads[t].pc = "read_db"
    /\ threads' = [threads EXCEPT ![t].pc = "set_cache", ![t].data = coach_profiles]
    /\ UNCHANGED <<memory, database, disk, budget, crashes, cache, now>>

\* lines 314 and 277-283: the list is stored with the time, and returned
SetCache(t) ==
    /\ threads[t].pc = "set_cache"
    /\ cache' = [key \in DOMAIN cache \cup {CacheKey} |->
                    IF key = CacheKey
                    THEN [data |-> threads[t].data, timestamp |-> now]
                    ELSE cache[key]]
    /\ Finish(t, Returned)
    /\ UNCHANGED <<memory, database, disk, budget, crashes, now>>

\* time passes
Tick(d) ==
    /\ budget > 0
    /\ budget' = budget - 1
    /\ now' = now + d
    /\ UNCHANGED <<memory, database, disk, threads, crashes, cache>>

\* app.py 164, 369: db.save_coach_profile
SaveCoachProfile(c) ==
    /\ c \notin coach_profiles
    /\ budget > 0
    /\ budget' = budget - 1
    /\ coach_profiles' = coach_profiles \cup {c}
    /\ UNCHANGED <<memory, dbPosts, knowledge_chunks, disk, threads, crashes,
                   cache, now>>

CacheStep(t) ==
    \/ GetAvailableCoaches(t)
    \/ CacheCheck(t)
    \/ CacheRead(t)
    \/ CacheValid(t)
    \/ CacheDelete(t)
    \/ ReadCoaches(t)
    \/ SetCache(t)

CacheEnv == (\E d \in ClockSteps : Tick(d)) \/ (\E c \in Creators : SaveCoachProfile(c))

\* requests overlap
CacheNext == (\E t \in Threads : CacheStep(t)) \/ CacheEnv

CacheSpec == CacheInit /\ [][CacheNext]_vars

\* one request at a time
CacheSeqNext == CacheStep("t1") \/ CacheEnv

CacheSeqSpec == CacheInit /\ [][CacheSeqNext]_vars

(***************************************************************************)
(* What a request observed                                                 *)
(***************************************************************************)
\* thread t has answered a question with search results
Answered(t) ==
    /\ threads[t].op = "ask"
    /\ threads[t].pc = "done"
    /\ threads[t].ret.kind = "results"

\* thread t has left create_knowledge_base, by return or by exception
BuildEnded(t) ==
    /\ threads[t].op = "build"
    /\ threads[t].pc = "done"

\* the index and the chunk list are parallel arrays: as many vectors as
\* chunks, vector i the normalised embedding of the text of chunk i
ParallelArrays(ix, meta) ==
    /\ Len(ix.vecs) = Len(meta)
    /\ \A i \in 1..Len(meta) :
          /\ ix.vecs[i].text = meta[i].chunk_text
          /\ ix.vecs[i].unit
          /\ Dim(ix.vecs[i]) = ix.d

\* for some batch of the request the remote service and the local model failed
BothFailed(t) ==
    \E b \in 1..Len(threads[t].outcomes) : threads[t].outcomes[b] = "fail"

\* what load_knowledge_base(c) makes of the two files
Loadable(c) == CanReadIndex(disk[c].index) /\ CanJsonLoad(disk[c].meta)

\* a request is writing the files of creator c
Saving(c) ==
    \E t \in Threads :
        /\ threads[t].creator = c
        /\ threads[t].pc \in {"open_index_file", "write_index_file",
                              "open_meta_file", "write_meta_file"}

(***************************************************************************)
(* C1.  Every chunk returned for a question to creator X was built from a  *)
(* post of creator X.                                                      *)
(* Fails: the coaches share one RAGKnowledgeBase; a coach that is cached   *)
(* in active_coaches searches whatever knowledge base was built or loaded  *)
(* last.                                                                   *)
(***************************************************************************)
C1_OwnKnowledgeBase ==
    \A t \in Threads :
        Answered(t) =>
            \A i \in 1..Len(threads[t].ret.results) :
                CreatorOfPost(threads[t].ret.results[i].post_metadata.post_id)
                    = threads[t].creator

(***************************************************************************)
(* C2.  A search with k >= 1 on a built index of m vectors returns exactly *)
(* min(k, m) results.                                                      *)
(* Fails when k > m >= 1: the index pads its answer with label -1, which   *)
(* passes `idx < len(self.chunk_metadata)` and reads chunk_metadata[-1].   *)
(***************************************************************************)
C2_MinKM ==
    \A t \in Threads :
        (Answered(t) /\ threads[t].ix.some) =>
            Len(threads[t].ret.results) = Min(threads[t].k, Len(threads[t].ix.vecs))

(***************************************************************************)
(* C3.  Whenever no save is under way (it has finished, or the process was *)
(* stopped in the middle of it), the files of a creator are not both       *)
(* loadable with an index and a chunk list of different builds.            *)
(* Fails: the index file is replaced first, the metadata file afterwards.  *)
(***************************************************************************)
C3_SaveAtomic ==
    \A c \in Creators :
        (Loadable(c) /\ ~Saving(c)) =>
            ParallelArrays(ReadIndex(disk[c].index), JsonLoad(disk[c].meta))

(***************************************************************************)
(* C4.  The index and the chunk list a query reads belong to one build.    *)
(* Fails: nothing keeps a build from replacing self.index and              *)
(* self.chunk_metadata, one after the other, while a query is between its  *)
(* two reads.                                                              *)
(***************************************************************************)
C4_QuerySeesOneBuild ==
    \A t \in Threads :
        Answered(t) => (threads[t].ix.some =>
                            ParallelArrays(threads[t].ix, threads[t].chunks))

(***************************************************************************)
(* C5.  Whenever no request is under way, the index and chunk_metadata are *)
(* parallel arrays.                                                        *)
(* Fails: two overlapping builds add their vectors to the same index.      *)
(***************************************************************************)
C5_ParallelArrays ==
    (\A t \in Threads : Free(t)) =>
        IF index.some THEN ParallelArrays(index, chunk_metadata)
        ELSE chunk_metadata = <<>>

(***************************************************************************)
(* C6.  Right after create_knowledge_base(c) has saved, loading the files  *)
(* of c gives the index and the chunk list that are in memory, and every   *)
(* search on what was loaded ranks as the search on what was saved.        *)
(***************************************************************************)
Saved(t) == BuildEnded(t) /\ threads[t].ret.kind = "summary"

C6_SaveLoadRoundTrip ==
    \A t \in Threads :
        Saved(t) =>
            LET c == threads[t].creator
                ix == ReadIndex(disk[c].index)
                meta == JsonLoad(disk[c].meta)
            IN /\ Loadable(c)
               /\ ix = index
               /\ meta = chunk_metadata
               /\ \A q \in Queries, k \in ContextChunks, m \in {"remote", "local"} :
                     CanSearch(index, m) =>
                        RankResults(meta, IndexSearch(ix, q, m, k))
                          = RankResults(chunk_metadata, IndexSearch(index, q, m, k))

\* a knowledge base with a high_value chunk (the one kind of chunk with an
\* engagement_metrics entry) and a semantic chunk has been saved
C6_Witness ==
    \E t \in Threads :
        /\ Saved(t)
        /\ \E i, j \in 1..Len(chunk_metadata) :
              /\ chunk_metadata[i].chunk_type = "high_value"
              /\ chunk_metadata[j].chunk_type /= "high_value"
        /\ JsonLoad(disk[threads[t].creator].meta) = chunk_metadata

(***************************************************************************)
(* C7.  When the local model answers for every batch the remote service    *)
(* fails, _generate_embeddings returns: one vector per text, in the order  *)
(* of the texts, all of one length.                                        *)
(* Fails when one batch is answered by the remote service and another by   *)
(* the local model: np.array refuses rows of 1536 and of 384 numbers.      *)
(***************************************************************************)
EmbedEnded(t) == threads[t].op = "embed" /\ threads[t].pc = "done"

C7_FallbackReturnsMatrix ==
    \A t \in Threads :
        (EmbedEnded(t) /\ ~BothFailed(t)) =>
            /\ threads[t].ret.kind = "returned"
            /\ Len(threads[t].vecs) = Len(threads[t].chunks)
            /\ \A i \in 1..Len(threads[t].vecs) :
                  threads[t].vecs[i].text = threads[t].chunks[i].chunk_text
            /\ \A i, j \in 1..Len(threads[t].vecs) :
                  Dim(threads[t].vecs[i]) = Dim(threads[t].vecs[j])

(***************************************************************************)
(* C8.  The query vector handed to index.search has as many numbers as the *)
(* indexed vectors.                                                        *)
(* Fails: the chunks were embedded by the remote service (1536), the query *)
(* by the local model (384), or the other way round.                       *)
(***************************************************************************)
C8_QueryDimension ==
    \A t \in Threads :
        threads[t].pc = "search_index" => CanSearch(index, threads[t].model)

(***************************************************************************)
(* C9.  When the remote service and the local model both fail for a batch, *)
(* create_knowledge_base returns a summary (of a partial failure); it does *)
(* not return the summary of a smaller knowledge base, and leaves no chunk *)
(* without its vector.                                                     *)
(* Fails: the exception of the local model leaves create_knowledge_base.   *)
(***************************************************************************)
C9_PartialFailureSummary ==
    \A t \in Threads :
        (BuildEnded(t) /\ BothFailed(t)) =>
            /\ threads[t].ret.kind = "summary"
            /\ threads[t].ret.total_chunks = Len(threads[t].chunks)
            /\ index.some => Len(index.vecs) = Len(chunk_metadata)

(***************************************************************************)
(* C10.  A search that meets no index, or an index without vectors,        *)
(* returns the empty sequence.                                             *)
(* Fails: a build that overlaps the query has put a new, still empty index *)
(* in self.index; its k padded labels -1 read the last chunk of the chunk  *)
(* list of the build before.                                               *)
(***************************************************************************)
C10_EmptyIndexNoResults ==
    \A t \in Threads :
        (Answered(t) /\ Len(threads[t].ix.vecs) = 0) => threads[t].ret.results = <<>>

(***************************************************************************)
(* C11.  The results of search_knowledge are in order of non-increasing    *)
(* final_score, and the sort is stable: results of equal final_score stand *)
(* in the order in which index.search returned their neighbours.           *)
(***************************************************************************)
\* the neighbours that get a result (line 464), in the order of index.search
KeptHits(meta, hits) == SelectSeq(hits, LAMBDA h : h.idx < Len(meta))

Perms(n) == {p \in [1..n -> 1..n] : \A i, j \in 1..n : i /= j => p[i] /= p[j]}

C11_SortedStable ==
    \A t \in Threads :
        Answered(t) =>
            LET meta == threads[t].chunks
                kept == KeptHits(meta, threads[t].hits)
                rs == threads[t].ret.results
            IN /\ Len(rs) = Len(kept)
               /\ \E p \in Perms(Len(kept)) :
                     /\ \A i \in 1..Len(rs) :
                           /\ rs[i].similarity_score = kept[p[i]].score
                           /\ rs[i].chunk_text = PyItem(meta, kept[p[i]].idx).chunk_text
                     /\ \A i, j \in 1..Len(rs) :
                           i < j =>
                              /\ rs[i].final_score >= rs[j].final_score
                              /\ rs[i].final_score = rs[j].final_score => p[i] < p[j]

\* two results tie on final_score with different similarities, and the
\* quality boost has put a result before one of higher similarity
C11_Witness ==
    \E t \in Threads :
        /\ Answered(t)
        /\ LET rs == threads[t].ret.results
           IN /\ \E i, j \in 1..Len(rs) :
                    /\ i < j
                    /\ rs[i].final_score = rs[j].final_score
                    /\ rs[i].similarity_score > rs[j].similarity_score
              /\ \E i, j \in 1..Len(rs) :
                    i < j /\ rs[i].similarity_score < rs[j].similarity_score

(***************************************************************************)
(* C12.  Every result of search_knowledge is a chunk of the list with the  *)
(* similarity_score of its neighbour and                                   *)
(* final_score = similarity_score + 0.1 * quality, quality being the       *)
(* chunk's content_quality, or 0.5 when the chunk has none.                *)
(***************************************************************************)
StoredQuality(chunk) ==
    IF "content_quality" \in DOMAIN chunk THEN chunk.content_quality ELSE DefaultQuality

C12_FinalScore ==
    \A t \in Threads :
        Answered(t) =>
            \A i \in 1..Len(threads[t].ret.results) :
                LET r == threads[t].ret.results[i]
                    meta == threads[t].chunks
                IN /\ 10 * r.final_score = 10 * r.similarity_score + StoredQuality(r)
                   /\ \E n \in 1..Len(threads[t].hits) :
                         LET hit == threads[t].hits[n]
                         IN /\ hit.idx < Len(meta)
                            /\ r.similarity_score = hit.score
                            /\ \A f \in DOMAIN PyItem(meta, hit.idx) :
                                  r[f] = PyItem(meta, hit.idx)[f]
                            /\ DOMAIN r = DOMAIN PyItem(meta, hit.idx)
                                             \cup {"similarity_score", "final_score"}

\* one answer holds a chunk without content_quality and a chunk with the
\* highest content_quality
C12_Witness ==
    \E t \in Threads :
        /\ Answered(t)
        /\ \E i, j \in 1..Len(threads[t].ret.results) :
              /\ "content_quality" \notin DOMAIN threads[t].ret.results[i]
              /\ "content_quality" \in DOMAIN threads[t].ret.results[j]
              /\ threads[t].ret.results[j].content_quality = 1000

(***************************************************************************)
(* C13.  The summary create_knowledge_base returns describes the knowledge *)
(* base it built: total_chunks is the number of chunks of the list and of  *)
(* vectors of the index, chunk_types the set of their chunk types, and     *)
(* embedding_dimension the length of the vectors placed in the index.      *)
(* Fails when the local model embedded the chunks: the index holds vectors *)
(* of 384 numbers and the summary says self.embedding_dimension, 1536.     *)
(***************************************************************************)
C13_SummaryDescribesBuild ==
    \A t \in Threads :
        Saved(t) =>
            /\ threads[t].ret.total_chunks = Len(chunk_metadata)
            /\ threads[t].ret.total_chunks = Len(index.vecs)
            /\ threads[t].ret.chunk_types =
                  {chunk_metadata[i].chunk_type : i \in 1..Len(chunk_metadata)}
            /\ threads[t].ret.embedding_dimension = index.d
            /\ \A i \in 1..Len(index.vecs) :
                  threads[t].ret.embedding_dimension = Dim(index.vecs[i])

(***************************************************************************)
(* C14.  A rebuild is wholesale: after create_knowledge_base(c) has        *)
(* returned, the chunk list and the index in memory, the two files of c    *)
(* and the knowledge_chunks rows of c hold the chunks of this build, in    *)
(* order, and nothing else.                                                *)
(* Fails on the rows: the table holds no row of c after any build.         *)
(***************************************************************************)
RowTexts(rows) == [i \in 1..Len(rows) |-> rows[i].chunk_text]

\* the chunk list, the index and the two files
C14_MemoryAndFiles ==
    \A t \in Threads :
        Saved(t) =>
            LET c == threads[t].creator
                built == threads[t].chunks
            IN /\ chunk_metadata = built
               /\ ParallelArrays(index, built)
               /\ Loadable(c)
               /\ JsonLoad(disk[c].meta) = built
               /\ ParallelArrays(ReadIndex(disk[c].index), built)

C14_WholesaleRebuild ==
    /\ C14_MemoryAndFiles
    /\ \A t \in Threads :
          Saved(t) =>
              RowTexts(knowledge_chunks[threads[t].creator]) = ChunkTexts(threads[t].chunks)

(***************************************************************************)
(* C15.  A post whose chunking fails does not stop the Chunk Builder: the  *)
(* call returns, with the chunks of every other post, in order.            *)
(* Fails: the TypeError of one post (likes or engagement_rate is None)     *)
(* leaves _chunk_content_strategically and create_knowledge_base; the      *)
(* chunks of the other posts are lost and no count is reported.            *)
(***************************************************************************)
\* thread t has left _chunk_content_strategically, by return or by exception
ChunkEnded(t) == threads[t].op = "chunk" /\ threads[t].pc = "done"

Chunkable(post) == ~PostRaises(post)

C15_PostErrorsIsolated ==
    \A t \in Threads :
        ChunkEnded(t) =>
            /\ threads[t].ret.kind = "returned"
            /\ threads[t].chunks =
                  ChunkContentStrategically(SelectSeq(threads[t].posts, Chunkable))

(***************************************************************************)
(* C16.  A load that fails reports "not found" exactly when no build of    *)
(* the creator exists; a knowledge base whose files exist but cannot be    *)
(* read is reported differently.                                           *)
(* Fails: load_knowledge_base returns False for every exception, and       *)
(* load_coach and ask_coach_by_id answer the same for both.                *)
(***************************************************************************)
\* no file of creator c was ever written
NoBuild(c) == disk[c].index.kind = "absent" /\ disk[c].meta.kind = "absent"

\* files of creator c exist and load_knowledge_base cannot read them
Corrupt(c) == ~NoBuild(c) /\ ~Loadable(c)

\* thread t asked a creator that has a profile and load_knowledge_base
\* returned False (ai_coach.py 240-242)
LoadFailed(t) ==
    /\ threads[t].op = "ask"
    /\ threads[t].pc = "done"
    /\ threads[t].creator \in coach_profiles
    /\ threads[t].ret = Raised("Coach not available")

\* the answer a failed load gets when no build exists
NotFound(ret) == ret = Raised("Coach not available")

C16_NotFoundDistinct ==
    \A t \in Threads :
        LoadFailed(t) => (NotFound(threads[t].ret) <=> NoBuild(threads[t].creator))

\* a load has failed because no build exists
C16_NotFoundCase ==
    \E t \in Threads : LoadFailed(t) /\ NoBuild(threads[t].creator)

(***************************************************************************)
(* C17.  _chunk_by_tokens(T, n) cuts T into ceil(tokens(T) / n) windows of *)
(* at most n tokens each, only the last one shorter, and the windows       *)
(* joined in order are T again, token for token; no text gives no window.  *)
(* Fails when a window ends inside a character of several tokens: the      *)
(* halves are decoded to U+FFFD and the character is lost.                 *)
(***************************************************************************)
\* thread t has left _chunk_by_tokens
TokensEnded(t) == threads[t].op = "tokens" /\ threads[t].pc = "done"

RECURSIVE Join(_)
Join(texts) == IF texts = <<>> THEN <<>> ELSE Head(texts) \o Join(Tail(texts))

C17_TokenPartition ==
    \A t \in Threads :
        TokensEnded(t) =>
            LET T == threads[t].text
                n == threads[t].max_tokens
                out == threads[t].windows
            IN /\ Len(out) * n >= Len(Encode(T))
               /\ (Len(out) - 1) * n < Len(Encode(T)) \/ out = <<>>
               /\ \A i \in 1..Len(out) : Len(Encode(out[i])) <= n
               /\ \A i \in 1..(Len(out) - 1) : Len(Encode(out[i])) = n
               /\ Encode(Join(out)) = Encode(T)
               /\ T = <<>> => out = <<>>

\* when no window ends inside a character, the windows joined are the text
C17_WholeCharacters ==
    \A t \in Threads :
        TokensEnded(t) =>
            LET T == threads[t].text
                tokens == Encode(T)
                n == threads[t].max_tokens
            IN (\A b \in 1..(Len(tokens) - 1) :
                    (b % n = 0) => ~(tokens[b] = "e1" /\ tokens[b + 1] = "e2"))
                  => Join(threads[t].windows) = T

(***************************************************************************)
(* C18.  No chunk the Chunk Builder returns has a trimmed text of fewer    *)
(* than 20 characters.                                                     *)
(* Fails for the high_value chunk of a post with a short text: it takes    *)
(* the whole text whatever its length.                                     *)
(***************************************************************************)
\* thread t has returned from _chunk_content_strategically
ChunksReturned(t) == ChunkEnded(t) /\ threads[t].ret.kind = "returned"

C18_NoShortChunk ==
    \A t \in Threads :
        ChunksReturned(t) =>
            \A i \in 1..Len(threads[t].chunks) :
                CharLen(Strip(threads[t].chunks[i].chunk_text)) >= MinChunkChars

\* the semantic chunks alone
C18_NoShortSemanticChunk ==
    \A t \in Threads :
        ChunksReturned(t) =>
            \A i \in 1..Len(threads[t].chunks) :
                threads[t].chunks[i].chunk_type /= "high_value" =>
                    CharLen(Strip(threads[t].chunks[i].chunk_text)) >= MinChunkChars

(***************************************************************************)
(* C19.  The text of every chunk the Chunk Builder returns is non-empty    *)
(* and has no whitespace at its ends.                                      *)
(* Fails for the high_value chunk: it takes the text as the post has it.   *)
(***************************************************************************)
C19_TextTrimmed ==
    \A t \in Threads :
        ChunksReturned(t) =>
            \A i \in 1..Len(threads[t].chunks) :
                /\ threads[t].chunks[i].chunk_text /= <<>>
                /\ Strip(threads[t].chunks[i].chunk_text) = threads[t].chunks[i].chunk_text

\* the semantic chunks alone
C19_SemanticTextTrimmed ==
    \A t \in Threads :
        ChunksReturned(t) =>
            \A i \in 1..Len(threads[t].chunks) :
                threads[t].chunks[i].chunk_type /= "high_value" =>
                    /\ threads[t].chunks[i].chunk_text /= <<>>
                    /\ Strip(threads[t].chunks[i].chunk_text)
                         = threads[t].chunks[i].chunk_text

(***************************************************************************)
(* C20.  Of each post with likes > 1000 or engagement_rate > 500 that has  *)
(* a caption or a transcript the Chunk Builder returns, after the semantic *)
(* chunks of the post, exactly one high_value chunk: its text the whole    *)
(* transcript if there is one, else the whole caption, its quality 1.0.    *)
(* Of any other post it returns the semantic chunks only.                  *)
(***************************************************************************)
\* the chunks of the output that come from post
ChunksOf(chunks, post) ==
    SelectSeq(chunks, LAMBDA ch : ch.post_metadata.post_id = post.post_id)

HighValueOf(chunks, post) ==
    SelectSeq(ChunksOf(chunks, post), LAMBDA ch : ch.chunk_type = "high_value")

HighEngagement(post) ==
    post.likes > HighLikes \/ post.engagement_rate > HighEngagementRate

HasText(post) == post.caption_text /= <<>> \/ post.transcript /= <<>>

C20_HighValueChunk ==
    \A t \in Threads :
        ChunksReturned(t) =>
            \A p \in 1..Len(threads[t].posts) :
                LET post == threads[t].posts[p]
                    mine == ChunksOf(threads[t].chunks, post)
                    high == HighValueOf(threads[t].chunks, post)
                IN IF HighEngagement(post) /\ HasText(post)
                   THEN /\ Len(high) = 1
                        /\ mine[Len(mine)] = high[1]
                        /\ high[1].chunk_text =
                              (IF post.transcript /= <<>> THEN post.transcript
                               ELSE post.caption_text)
                        /\ high[1].content_quality = 1000
                        /\ (post.caption_text = Words(4) /\ post.transcript = <<>>) =>
                              /\ Len(mine) = 2
                              /\ mine[1].chunk_type = "semantic_caption"
                   ELSE high = <<>>

\* one call has returned a high_value chunk that holds the transcript of a
\* post that has a caption too, one that holds a caption, and none for a
\* post at the thresholds
C20_Witness ==
    \E t \in Threads :
        /\ ChunksReturned(t)
        /\ \E p, q \in 1..Len(threads[t].posts) :
              LET post == threads[t].posts[p]
                  other == threads[t].posts[q]
              IN /\ post.caption_text /= <<>>
                 /\ post.transcript /= <<>>
                 /\ Len(HighValueOf(threads[t].chunks, post)) = 1
                 /\ other.likes = HighLikes
                 /\ other.engagement_rate = HighEngagementRate
                 /\ HasText(other)
                 /\ HighValueOf(threads[t].chunks, other) = <<>>


(***************************************************************************)
(* C21.  A post with no caption and no transcript contributes no chunk to  *)
(* what the Chunk Builder returns, whatever its likes, its engagement rate *)
(* and its media URL.                                                      *)
(***************************************************************************)
C21_NoTextNoChunks ==
    \A t \in Threads :
        ChunksReturned(t) =>
            \A p \in 1..Len(threads[t].posts) :
                ~HasText(threads[t].posts[p]) =>
                    ChunksOf(threads[t].chunks, threads[t].posts[p]) = <<>>

\* one call has returned no chunk for two posts without text: one with more
\* than 1000 likes and no media URL, one with an engagement rate over 500
C21_Witness ==
    \E t \in Threads :
        /\ ChunksReturned(t)
        /\ threads[t].chunks = <<>>
        /\ \E p, q \in 1..Len(threads[t].posts) :
              LET post == threads[t].posts[p]
                  other == threads[t].posts[q]
              IN /\ ~HasText(post) /\ ~HasText(other)
                 /\ post.likes > HighLikes /\ post.media_url = ""
                 /\ other.engagement_rate > HighEngagementRate
                 /\ other.media_url = "u"


(***************************************************************************)
(* C22.  What the Chunk Builder returns is the chunk lists of the posts,   *)
(* one after the other in the order of the posts: every chunk carries the  *)
(* post_id of exactly one post of the input and its text is a part of a    *)
(* text of that post, and the chunks of a post come before the chunks of   *)
(* every later post.                                                       *)
(***************************************************************************)
\* the positions in posts of the posts with the post_id of chunk ch
PostsOf(posts, ch) ==
    {p \in 1..Len(posts) : posts[p].post_id = ch.post_metadata.post_id}

\* text is a run of consecutive pieces of whole
IsPartOf(text, whole) ==
    \E a \in 1..(Len(whole) + 1) :
        /\ a + Len(text) - 1 <= Len(whole)
        /\ SubSeq(whole, a, a + Len(text) - 1) = text

C22_PostOrder ==
    \A t \in Threads :
        ChunksReturned(t) =>
            LET posts == threads[t].posts
                chunks == threads[t].chunks
            IN /\ \A i \in 1..Len(chunks) :
                    /\ Cardinality(PostsOf(posts, chunks[i])) = 1
                    /\ \A p \in PostsOf(posts, chunks[i]) :
                          \/ IsPartOf(chunks[i].chunk_text, posts[p].caption_text)
                          \/ IsPartOf(chunks[i].chunk_text, posts[p].transcript)
               /\ \A i, j \in 1..Len(chunks) :
                    i < j => \A p \in PostsOf(posts, chunks[i]),
                                q \in PostsOf(posts, chunks[j]) : p <= q
               /\ \A p \in 1..Len(posts) :
                    ChunksOf(chunks, posts[p]) = PostChunks(posts[p])

\* one call has returned several chunks of a first post followed by several
\* chunks of a second post
C22_Witness ==
    \E t \in Threads :
        /\ ChunksReturned(t)
        /\ Len(threads[t].posts) = 2
        /\ Len(ChunksOf(threads[t].chunks, threads[t].posts[1])) >= 2
        /\ Len(ChunksOf(threads[t].chunks, threads[t].posts[2])) >= 2
        /\ threads[t].posts[1].caption_text /= threads[t].posts[2].caption_text


(***************************************************************************)
(* C23.  The content_quality of every chunk the Chunk Builder returns is   *)
(* between 0 and 1, whatever the text and the engagement of its post.      *)
(***************************************************************************)
C23_QualityInUnitInterval ==
    \A t \in Threads :
        ChunksReturned(t) =>
            \A i \in 1..Len(threads[t].chunks) :
                /\ threads[t].chunks[i].content_quality >= 0
                /\ threads[t].chunks[i].content_quality <= 1000

\* one call has returned a semantic chunk of quality 0 of a post without
\* engagement, and a semantic chunk whose four terms add up to 1.0
C23_Witness ==
    \E t \in Threads :
        /\ ChunksReturned(t)
        /\ \E i, j \in 1..Len(threads[t].chunks) :
              /\ threads[t].chunks[i].chunk_type = "semantic_caption"
              /\ threads[t].chunks[i].post_metadata.likes = 0
              /\ threads[t].chunks[i].content_quality = 0
              /\ threads[t].chunks[j].chunk_type = "semantic_transcript"
              /\ threads[t].chunks[j].content_quality = 1000


(***************************************************************************)
(* C24.  _assess_content_quality(text, post) is min(1.0, a + b + c + d):   *)
(* a = 0.3 when text has 15 to 150 words; b = 0.4 when likes > 1000, else  *)
(* 0.2 when likes > 500; c = 0.1 when text holds '?'; d = 0.2 when text    *)
(* holds one of 'how to', 'tip', 'strategy', 'step'; each 0 otherwise.     *)
(***************************************************************************)
QualityEnded(t) == threads[t].op = "quality" /\ threads[t].pc = "done"

C24_QualityFormula ==
    \A t \in Threads :
        (QualityEnded(t) /\ threads[t].ret.kind = "returned") =>
            LET text == threads[t].text
                likes == threads[t].posts[1].likes
                words == Cardinality({i \in 1..Len(text) :
                            text[i] /= "sp" /\ (i = 1 \/ text[i - 1] = "sp")})
                a == IF words >= 15 /\ words <= 150 THEN 300 ELSE 0
                b == IF likes > 1000 THEN 400 ELSE IF likes > 500 THEN 200 ELSE 0
                c == IF \E i \in 1..Len(text) : text[i] = "qm" THEN 100 ELSE 0
                d == IF \E i \in 1..Len(text) : text[i] = "tip" THEN 200 ELSE 0
            IN threads[t].quality = (IF a + b + c + d > 1000 THEN 1000 ELSE a + b + c + d)

\* the score of a text of 150 words with a marker and a question mark of a
\* post with 1001 likes has been returned
C24_Witness ==
    \E t \in Threads :
        /\ QualityEnded(t)
        /\ threads[t].ret.kind = "returned"
        /\ WordCount(threads[t].text) = MaxWords
        /\ HasQuestion(threads[t].text)
        /\ HasMarker(threads[t].text)
        /\ threads[t].posts[1].likes = HighLikes + 1
        /\ threads[t].quality = 1000


(***************************************************************************)
(* C25.  Search results are never persisted: a search leaves the index and *)
(* chunk_metadata as they were, and no chunk in memory, in a metadata file *)
(* or in the knowledge_chunks table carries a similarity_score or a        *)
(* final_score.                                                            *)
(***************************************************************************)
ScoreKeys == {"similarity_score", "final_score"}

HasScores(chunk) == DOMAIN chunk \cap ScoreKeys /= {}

C25_ResultsNotPersisted ==
    /\ \A i \in 1..Len(chunk_metadata) : ~HasScores(chunk_metadata[i])
    /\ \A c \in Creators :
          /\ CanJsonLoad(disk[c].meta) =>
                \A i \in 1..Len(disk[c].meta.doc) :
                    \A j \in 1..Len(disk[c].meta.doc[i]) :
                        disk[c].meta.doc[i][j][1] \notin ScoreKeys
          /\ \A i \in 1..Len(knowledge_chunks[c]) : ~HasScores(knowledge_chunks[c][i])
    /\ \A t \in Threads :
          Answered(t) =>
              /\ threads[t].ret.results /= <<>> =>
                    /\ threads[t].chunks = chunk_metadata
                    /\ threads[t].ix = index
              /\ \A i \in 1..Len(threads[t].ret.results) :
                    HasScores(threads[t].ret.results[i])

\* a search has returned results from a knowledge base that is saved on disk
C25_Witness ==
    \E t \in Threads :
        /\ Answered(t)
        /\ threads[t].ret.results /= <<>>
        /\ CanJsonLoad(disk[threads[t].creator].meta)
        /\ disk[threads[t].creator].meta.doc /= <<>>
        /\ chunk_metadata /= <<>>


(***************************************************************************)
(* C26.  _generate_embeddings ends, and its attempts are bounded: each     *)
(* batch holds at most 100 texts, the remote service is called at most     *)
(* once for a batch and the local model at most once and only after the    *)
(* remote call; when it returns every batch was handled once and every     *)
(* text was embedded once, in its place.                                   *)
(***************************************************************************)
EmbedLoopEnded(t) == threads[t].op = "embed_loop" /\ threads[t].pc = "done"

C26_Attempts ==
    \A t \in Threads :
        threads[t].op = "embed_loop" =>
            LET texts == ChunkTexts(threads[t].chunks)
                calls == threads[t].calls
            IN /\ Len(calls) * BatchSize >= Len(texts)
               /\ (Len(calls) - 1) * BatchSize < Len(texts) \/ Len(calls) = 0
               /\ \A b \in 1..Len(calls) :
                     /\ Len(Batch(texts, b)) \in 1..BatchSize
                     /\ calls[b].remote <= 1
                     /\ calls[b].local <= calls[b].remote
                     /\ b > 1 /\ calls[b].remote = 1 => calls[b - 1].remote = 1
               /\ (EmbedLoopEnded(t) /\ threads[t].ret.kind = "returned") =>
                     /\ \A b \in 1..Len(calls) : calls[b].remote = 1
                     /\ Len(threads[t].vecs) = Len(texts)
                     /\ \A i \in 1..Len(texts) : threads[t].vecs[i].text = texts[i]

\* what the loop ends with is what GenerateEmbeddings gives for the batches
C26_LoopAgrees ==
    \A t \in Threads :
        EmbedLoopEnded(t) =>
            LET emb == GenerateEmbeddings(ChunkTexts(threads[t].chunks),
                                          threads[t].outcomes)
            IN IF emb.raised = ""
               THEN /\ threads[t].ret = Returned
                    /\ threads[t].vecs = emb.vecs
                    /\ threads[t].ndim = emb.ndim
               ELSE threads[t].ret = Raised(emb.raised)

C26_Ends == \A t \in Threads : threads[t].op = "embed_loop" => threads[t].pc = "done"

C27_FailedLoadKeepsMemory ==
    \A t \in Threads :
        LoadFailed(t) =>
            /\ index = threads[t].before.index
            /\ chunk_metadata = threads[t].before.chunk_metadata

\* the failed load has not left the index of the creator asked for with the
\* chunk list of the other creator
C27_NoForeignChunks ==
    \A t \in Threads :
        LoadFailed(t) =>
            ~ /\ CanReadIndex(disk[threads[t].creator].index)
              /\ index = ReadIndex(disk[threads[t].creator].index)
              /\ index /= threads[t].before.index
              /\ chunk_metadata /= <<>>
              /\ \A i \in 1..Len(chunk_metadata) :
                    CreatorOfPost(chunk_metadata[i].post_metadata.post_id)
                        /= threads[t].creator

\* a load has failed at the index file, and memory is as it was
C27_FailedAtIndex ==
    \A t \in Threads :
        (LoadFailed(t) /\ ~CanReadIndex(disk[threads[t].creator].index)) =>
            /\ index = threads[t].before.index
            /\ chunk_metadata = threads[t].before.chunk_metadata


(***************************************************************************)
(* C28.  When create_knowledge_base raises, the knowledge_chunks rows and  *)
(* the two files of the creator, self.index and self.chunk_metadata are    *)
(* what they were when it was called.                                      *)
(* Fails when the save raises: lines 345 and 354 have replaced the two     *)
(* attributes, and line 411 the index file, before the build is known to   *)
(* succeed, and nothing puts them back.                                    *)
(***************************************************************************)
BuildRaised(t) == BuildEnded(t) /\ threads[t].ret.kind = "error"

C28_FailedBuildKeepsState ==
    \A t \in Threads :
        BuildRaised(t) =>
            /\ index = threads[t].before.index
            /\ chunk_metadata = threads[t].before.chunk_metadata
            /\ knowledge_chunks[threads[t].creator] = threads[t].before.rows
            /\ disk[threads[t].creator] = threads[t].before.files

\* a build that raised before its save has left everything as it was
C28_RaisedBeforeSave ==
    \A t \in Threads :
        (BuildRaised(t) /\ threads[t].ret.err /= "OSError") =>
            /\ index = threads[t].before.index
            /\ chunk_metadata = threads[t].before.chunk_metadata
            /\ knowledge_chunks[threads[t].creator] = threads[t].before.rows
            /\ disk[threads[t].creator] = threads[t].before.files


(***************************************************************************)
(* C29.  create_knowledge_base on posts that give no chunk returns a       *)
(* summary with total_chunks = 0 and leaves an empty knowledge base.       *)
(* Fails: the embeddings of no chunk are an array of one axis, and         *)
(* embeddings.shape[1] on line 345 raises IndexError.                      *)
(***************************************************************************)
\* thread t has left a create_knowledge_base that was called with posts
\* and got no chunk out of them
EmptyBuildEnded(t) ==
    /\ BuildEnded(t)
    /\ threads[t].chunks = <<>>
    /\ threads[t].ret /= Raised("No real posts found")

C29_EmptyBuildSucceeds ==
    \A t \in Threads :
        EmptyBuildEnded(t) =>
            /\ threads[t].ret.kind = "summary"
            /\ threads[t].ret.total_chunks = 0
            /\ index.some /\ index.vecs = <<>>
            /\ chunk_metadata = <<>>

\* what such a build does instead
C29_EmptyBuildRaises ==
    \A t \in Threads :
        EmptyBuildEnded(t) =>
            /\ threads[t].ret = Raised("IndexError")
            /\ index = threads[t].before.index
            /\ chunk_metadata = threads[t].before.chunk_metadata
            /\ disk[threads[t].creator] = threads[t].before.files


(***************************************************************************)
(* C30.  _get_from_cache returns the data last stored under the key when   *)
(* fewer than 300 seconds have passed since it was stored; otherwise it    *)
(* returns None and the expired entry is removed; get_available_coaches    *)
(* reads the database only when it found no unexpired entry.               *)
(* Fails when two requests overlap at an expired entry: both find the key, *)
(* one deletes it, and the other raises KeyError at line 269 or line 274.  *)
(***************************************************************************)
CoachesEnded(t) == threads[t].op = "coaches" /\ threads[t].pc = "done"

\* seconds between the store of the entry thread t read and its test of it
Elapsed(t) == threads[t].checked - threads[t].entry.timestamp

C30_TtlCache ==
    \A t \in Threads :
        threads[t].op = "coaches" =>
            /\ CoachesEnded(t) => threads[t].ret.kind = "returned"
            /\ threads[t].found = "hit" =>
                  /\ Elapsed(t) < 300
                  /\ threads[t].data = threads[t].entry.data
            /\ threads[t].found = "expired" => Elapsed(t) >= 300
            /\ threads[t].pc \in {"read_db", "set_cache"} =>
                  threads[t].found \in {"absent", "expired"}

\* with one request at a time: what is returned from the cache is what the
\* cache holds, stored less than 300 seconds ago; and the expired entry is
\* gone when the database is read
C30_OneAtATime ==
    /\ C30_TtlCache
    /\ \A t \in Threads :
          /\ (CoachesEnded(t) /\ threads[t].found = "hit") =>
                /\ CacheKey \in DOMAIN cache
                /\ threads[t].data = cache[CacheKey].data
                /\ threads[t].checked - cache[CacheKey].timestamp < 300
          /\ threads[t].pc \in {"read_db", "set_cache"} => CacheKey \notin DOMAIN cache
          /\ (CoachesEnded(t) /\ threads[t].found /= "hit") =>
                cache[CacheKey] = [data |-> threads[t].data, timestamp |-> now]
                \/ now > cache[CacheKey].timestamp

\* one at a time, an entry of 299 seconds has been returned; an entry of
\* exactly 300 seconds has been dropped and the database read again
C30_Kept ==
    \E t \in Threads :
        CoachesEnded(t) /\ threads[t].found = "hit" /\ Elapsed(t) = 299

C30_Dropped ==
    \E t \in Threads :
        /\ CoachesEnded(t) /\ threads[t].found = "expired" /\ Elapsed(t) = 300
        /\ threads[t].data /= threads[t].entry.data

=============================================================================
